---------------------------- MODULE Spec2Model ----------------------------
(***************************************************************************)
(* Model of the rock-core micrograph analysis core                         *)
(* (src/src/app/core): the unit converter, the threshold dispatchers, the  *)
(* fracture and pore analyzers and their measurement post-processing.      *)
(*                                                                         *)
(* Conventions of the model                                                *)
(*   - Python floats are exact rationals <<n, d>> with d > 0, in lowest    *)
(*     terms; Python None is the empty tuple <<>>.                         *)
(*   - A Python dict is a function whose DOMAIN is its key set.            *)
(*   - A raised exception is a record [raised |-> <type name>, ...]; a     *)
(*     normal return has raised = "none".                                  *)
(*   - Calls into OpenCV / scikit-image that compute pixel data are        *)
(*     uninterpreted: an image is the sequence of library operations       *)
(*     (with their arguments) that produced it from the caller's buffer.   *)
(***************************************************************************)
EXTENDS Integers, Sequences, FiniteSets, TLC

VARIABLES
    uc,     \* one call of a UnitConverter static method
    th,     \* one call of a threshold entry point
    an,     \* one call of an analyzer, stage by stage, and its post-processing
    ct,     \* a Controller and what its last handler called and emitted
    mg,     \* the work queue and the accepted list of one _merge_fractures pass
    dg      \* a settings dialog, its preview timer and what its handlers emitted

vars == <<uc, th, an, ct, mg, dg>>

(***************************************************************************)
(* Numbers                                                                 *)
(***************************************************************************)
None == <<>>

\* None where the other values are strings (a method name, a stage key)
NoneStr == "<None>"

Abs(x) == IF x < 0 THEN -x ELSE x

RECURSIVE GCD(_, _)
GCD(a, b) == IF b = 0 THEN a ELSE GCD(b, a % b)

\* the rational n/d (d # 0) in lowest terms with a positive denominator
R(n, d) ==
    LET g == GCD(Abs(n), Abs(d))
        s == IF d < 0 THEN -1 ELSE 1
    IN  <<(s * n) \div g, (s * d) \div g>>

Zero == <<0, 1>>

RInt(n) == <<n, 1>>

RAdd(x, y) == R(x[1] * y[2] + y[1] * x[2], x[2] * y[2])

RMul(x, y) == R(x[1] * y[1], x[2] * y[2])

\* x / y for y # 0
RDiv(x, y) == R(x[1] * y[2], x[2] * y[1])

RLe(x, y) == x[1] * y[2] <= y[1] * x[2]

RLt(x, y) == x[1] * y[2] < y[1] * x[2]

(***************************************************************************)
(* Outcomes of a call                                                      *)
(***************************************************************************)
Return(v) == [raised |-> "none", value |-> v]

Raise(e) == [raised |-> e, value |-> None]

(***************************************************************************)
(* UnitConverter (unit_converter.py)                                       *)
(***************************************************************************)
MM_PER_INCH == R(254, 10)

\* the mutation of pixels_to_mm that only rejects negative DPI
pixels_to_mm_zero_dpi_accepted(pixels, dpi) ==
    IF dpi = None THEN Raise("TypeError")
    ELSE IF RLt(dpi, Zero) THEN Raise("ValueError")
    ELSE IF dpi = Zero THEN Raise("ZeroDivisionError")
    ELSE Return(RMul(RDiv(pixels, dpi), MM_PER_INCH))

pixels_to_mm(pixels, dpi) ==
    IF dpi = None THEN Raise("TypeError")            \* None <= 0
    ELSE IF RLe(dpi, Zero) THEN Raise("ValueError")
    ELSE Return(RMul(RDiv(pixels, dpi), MM_PER_INCH))

mm_to_pixels(mm, dpi) ==
    IF dpi = None THEN Raise("TypeError")
    ELSE IF RLe(dpi, Zero) THEN Raise("ValueError")
    ELSE Return(RDiv(RMul(mm, dpi), MM_PER_INCH))

convert_distance(pixel_distance, dpi) == pixels_to_mm(pixel_distance, dpi)

convert_area(pixel_area, dpi) ==
    IF dpi = None THEN Raise("TypeError")
    ELSE IF RLe(dpi, Zero) THEN Raise("ValueError")
    ELSE LET mm_per_pixel == RDiv(MM_PER_INCH, dpi)
         IN  Return(RMul(pixel_area, RMul(mm_per_pixel, mm_per_pixel)))

(***************************************************************************)
(* Python dicts                                                            *)
(***************************************************************************)
EmptyDict == <<>>

\* d.get(k, default)
Get(d, k, default) == IF k \in DOMAIN d THEN d[k] ELSE default

\* a copy of d with d[k] = v
Put(d, k, v) == [x \in (DOMAIN d) \cup {k} |-> IF x = k THEN v ELSE d[x]]

IsEven(x) == x[2] = 1 /\ x[1] % 2 = 0

(***************************************************************************)
(* Images.  channels is 1 for a single-channel array and 3 for BGR; ops    *)
(* is the sequence of library operations applied to the caller's buffer,   *)
(* so two images are the same buffer exactly when they are equal and the   *)
(* caller's own buffer is the one with ops = <<>>.                         *)
(***************************************************************************)
InputImage(channels) == [channels |-> channels, ops |-> <<>>]

LibCall(image, op) == [image EXCEPT !.ops = Append(@, op)]

(***************************************************************************)
(* image_operations.py: preprocessing and the five threshold primitives    *)
(***************************************************************************)
DEFAULT_GAUSSIAN_KERNEL == <<5, 5>>

convert_to_grayscale(image) ==
    IF image.channels = 1 THEN image
    ELSE [channels |-> 1, ops |-> Append(image.ops, <<"cvtColor", "COLOR_BGR2GRAY">>)]

apply_gaussian_blur(image, kernel_size) ==
    LET ksize == IF kernel_size # None THEN kernel_size ELSE DEFAULT_GAUSSIAN_KERNEL
    IN  LibCall(image, <<"GaussianBlur", ksize, 0>>)

apply_global_threshold(image, threshold_value) ==
    IF threshold_value = None THEN Raise("TypeError")     \* cv2.threshold(image, None, ...)
    ELSE Return(LibCall(image, <<"threshold", threshold_value, 255, "THRESH_BINARY_INV">>))

apply_adaptive_gaussian_threshold(image, block_size, c) ==
    IF block_size = None THEN Raise("TypeError")          \* None % 2
    ELSE LET bs == IF IsEven(block_size) THEN RAdd(block_size, RInt(1)) ELSE block_size
         IN  IF c = None THEN Raise("TypeError")
             ELSE IF RLe(bs, RInt(1)) THEN Raise("cv2.error")
             ELSE Return(LibCall(image, <<"adaptiveThreshold", 255, "ADAPTIVE_THRESH_GAUSSIAN_C",
                                          "THRESH_BINARY_INV", bs, c>>))

\* returns the pair (binary, int(otsu_thresh))
apply_otsu_threshold(image) ==
    Return(<<LibCall(image, <<"threshold", 0, 255, "THRESH_BINARY_INV+THRESH_OTSU">>),
             "otsu_thresh">>)

apply_niblack_threshold(image, window_size, k) ==
    IF window_size = None THEN Raise("TypeError")         \* None % 2
    ELSE LET ws == IF IsEven(window_size) THEN RAdd(window_size, RInt(1)) ELSE window_size
         IN  IF k = None THEN Raise("TypeError")
             ELSE Return(LibCall(image, <<"threshold_niblack", ws, k, "image < thresh_val">>))

\* threshold_sauvola accepts r = None (half of the dtype range)
apply_sauvola_threshold(image, window_size, k, r) ==
    IF window_size = None THEN Raise("TypeError")
    ELSE LET ws == IF IsEven(window_size) THEN RAdd(window_size, RInt(1)) ELSE window_size
         IN  IF k = None THEN Raise("TypeError")
             ELSE Return(LibCall(image, <<"threshold_sauvola", ws, k, r, "image < thresh_val">>))

(***************************************************************************)
(* The analyzers' threshold dispatch                                       *)
(***************************************************************************)
FractureAnalyzer_apply_threshold(image, params) ==
    LET method == Get(params, "method", NoneStr)
    IN  IF method = "global" THEN
            apply_global_threshold(image,
                Get(params, "global_value", Get(params, "value", None)))
        ELSE IF method = "adaptive_gaussian" THEN
            apply_adaptive_gaussian_threshold(image,
                Get(params, "adaptive_block_size", Get(params, "block_size", None)),
                Get(params, "adaptive_c_value", Get(params, "c", None)))
        ELSE IF method = "otsu" THEN
            Return(apply_otsu_threshold(image).value[1])
        ELSE IF method = "niblack" THEN
            apply_niblack_threshold(image,
                Get(params, "niblack_window_size", Get(params, "window_size", None)),
                Get(params, "niblack_k", Get(params, "k", None)))
        ELSE IF method = "sauvola" THEN
            apply_sauvola_threshold(image,
                Get(params, "sauvola_window_size", Get(params, "window_size", None)),
                Get(params, "sauvola_k", Get(params, "k", None)),
                Get(params, "sauvola_r", Get(params, "r", None)))
        ELSE Return(image)      \* unknown or missing method: the image is handed back

PoreAnalyzer_apply_threshold(image, params) ==
    LET method == Get(params, "method", NoneStr)
    IN  IF method = "global" THEN
            apply_global_threshold(image,
                Get(params, "global_value", Get(params, "value", None)))
        ELSE IF method = "adaptive_gaussian" THEN
            apply_adaptive_gaussian_threshold(image,
                Get(params, "adaptive_block_size", Get(params, "block_size", None)),
                Get(params, "adaptive_c_value", Get(params, "c", None)))
        ELSE IF method = "otsu" THEN
            Return(apply_otsu_threshold(image).value[1])
        ELSE IF method = "niblack" THEN
            apply_niblack_threshold(image,
                Get(params, "niblack_window_size", Get(params, "window_size", None)),
                Get(params, "niblack_k", Get(params, "k", None)))
        ELSE IF method = "sauvola" THEN
            apply_sauvola_threshold(image,
                Get(params, "sauvola_window_size", Get(params, "window_size", None)),
                Get(params, "sauvola_k", Get(params, "k", None)),
                Get(params, "sauvola_r", Get(params, "r", None)))
        ELSE Return(image)

(***************************************************************************)
(* image_processor.py: ImageProcessor.apply_threshold and its primitives   *)
(* (these use the non-inverted flags)                                      *)
(***************************************************************************)
process_image(image) == apply_gaussian_blur(convert_to_grayscale(image), None)

ImageProcessor_apply_global_threshold(image, threshold_value) ==
    IF threshold_value = None THEN Raise("TypeError")
    ELSE Return(LibCall(image, <<"threshold", threshold_value, 255, "THRESH_BINARY">>))

ImageProcessor_apply_adaptive_gaussian_threshold(image, block_size, c) ==
    IF block_size = None THEN Raise("TypeError")
    ELSE LET bs == IF IsEven(block_size) THEN RAdd(block_size, RInt(1)) ELSE block_size
         IN  IF c = None THEN Raise("TypeError")
             ELSE IF RLe(bs, RInt(1)) THEN Raise("cv2.error")
             ELSE Return(LibCall(image, <<"adaptiveThreshold", 255, "ADAPTIVE_THRESH_GAUSSIAN_C",
                                          "THRESH_BINARY", bs, c>>))

ImageProcessor_apply_otsu_threshold(image) ==
    Return(<<LibCall(image, <<"threshold", 0, 255, "THRESH_BINARY+THRESH_OTSU">>),
             "otsu_thresh">>)

\* the result dictionary, or the exception raised
ImageProcessor_apply_threshold(image, method, params0) ==
    LET params == IF params0 = None THEN EmptyDict ELSE params0
        result == [binary |-> None, threshold |-> None, method |-> method, params |-> params]
        processed_image == process_image(image)
        Fill(out, threshold) ==
            IF out.raised # "none" THEN out
            ELSE Return([result EXCEPT !.binary = out.value, !.threshold = threshold])
    IN  IF method = "global" THEN
            LET threshold == Get(params, "value", RInt(128))
            IN  Fill(ImageProcessor_apply_global_threshold(processed_image, threshold), threshold)
        ELSE IF method = "adaptive_gaussian" THEN
            Fill(ImageProcessor_apply_adaptive_gaussian_threshold(processed_image,
                     Get(params, "block_size", RInt(11)), Get(params, "c", RInt(2))), None)
        ELSE IF method = "otsu" THEN
            LET o == ImageProcessor_apply_otsu_threshold(processed_image).value
            IN  Fill(Return(o[1]), o[2])
        ELSE IF method = "niblack" THEN
            LET window_size == Get(params, "window_size", RInt(25))
                k == Get(params, "k", R(2, 10))
            IN  IF window_size = None \/ k = None THEN Raise("TypeError")
                ELSE LET ws == IF IsEven(window_size) THEN RAdd(window_size, RInt(1))
                                                       ELSE window_size
                     IN  Fill(Return(LibCall(processed_image,
                            <<"threshold_niblack", ws, k, "image > thresh_val">>)), None)
        ELSE IF method = "sauvola" THEN
            LET window_size == Get(params, "window_size", RInt(25))
                k == Get(params, "k", R(2, 10))
                r == Get(params, "r", RInt(128))
            IN  IF window_size = None \/ k = None THEN Raise("TypeError")
                ELSE LET ws == IF IsEven(window_size) THEN RAdd(window_size, RInt(1))
                                                       ELSE window_size
                     IN  Fill(Return(LibCall(processed_image,
                            <<"threshold_sauvola", ws, k, r, "image > thresh_val">>)), None)
        ELSE Raise("ValueError")

\* image_processor.py, lines 309-373: the result dictionary {binary, params}
ImageProcessor_apply_morphological_postprocessing(binary_image, opening_strategy, closing_strategy, params0) ==
    LET params == IF params0 = None THEN EmptyDict ELSE params0
        opening_params == Get(params, "opening", EmptyDict)
        opening_ksize == Get(opening_params, "kernel_size", Zero)
        closing_params == Get(params, "closing", EmptyDict)
        closing_ksize == Get(closing_params, "kernel_size", Zero)
        \* create_morphology_kernel, lines 267-285
        Kernel(shape, ksize) ==
            <<"getStructuringElement",
              IF shape \in {"rect", "ellipse", "cross"} THEN shape ELSE "rect",
              <<ksize, ksize>>>>
        \* invert, apply, invert back
        Inverted(image, op) == LibCall(LibCall(LibCall(image, <<"bitwise_not">>), op),
                                       <<"bitwise_not">>)
        processed_image == LibCall(binary_image, <<"copy">>)
        opened ==
            IF ~RLt(Zero, opening_ksize) THEN processed_image
            ELSE IF opening_strategy = "standard" THEN
                Inverted(processed_image,
                         <<"morphologyEx", "MORPH_OPEN",
                           Kernel(Get(opening_params, "kernel_shape", "rect"), opening_ksize),
                           Get(opening_params, "iterations", RInt(1))>>)
            ELSE IF opening_strategy = "area_based" THEN
                Inverted(processed_image,
                         <<"findContours", "draw contourArea >",
                           Get(opening_params, "min_area", RInt(100))>>)
            ELSE processed_image
        closed ==
            IF ~RLt(Zero, closing_ksize) THEN opened
            ELSE Inverted(opened,
                          <<"morphologyEx", "MORPH_CLOSE",
                            Kernel(Get(closing_params, "kernel_shape", "rect"), closing_ksize),
                            Get(closing_params, "iterations", RInt(1))>>)
    IN  [binary |-> closed, params |-> params]

(***************************************************************************)
(* Specification SpecUnit: every converter on a grid of values and DPIs    *)
(***************************************************************************)
MaxValue == 4

ValueInputs == {RInt(v) : v \in -1 .. MaxValue} \cup {R(5, 2)}

DpiInputs == {RInt(-96), RInt(-1), Zero, R(1, 2), RInt(72), RInt(96), RInt(254)}

ConverterNames == {"pixels_to_mm", "mm_to_pixels", "convert_distance", "convert_area"}

UcInit ==
    /\ dg = None
    /\ th = None
    /\ an = None
    /\ ct = None
    /\ mg = None
    /\ uc \in [fn : ConverterNames, value : ValueInputs, dpi : DpiInputs,
            status : {"pending"}, out : {None}]

UcCall(name, out) ==
    /\ uc.status = "pending"
    /\ uc.fn = name
    /\ uc' = [uc EXCEPT !.status = "done", !.out = out]
    /\ UNCHANGED <<th, an, ct, mg, dg>>

CallPixelsToMm == UcCall("pixels_to_mm", pixels_to_mm(uc.value, uc.dpi))

CallMmToPixels == UcCall("mm_to_pixels", mm_to_pixels(uc.value, uc.dpi))

CallConvertDistance == UcCall("convert_distance", convert_distance(uc.value, uc.dpi))

CallConvertArea == UcCall("convert_area", convert_area(uc.value, uc.dpi))

UcNext == CallPixelsToMm \/ CallMmToPixels \/ CallConvertDistance \/ CallConvertArea

SpecUnit == UcInit /\ [][UcNext]_vars

(***************************************************************************)
(* C3: each of pixels_to_mm, mm_to_pixels, convert_distance, convert_area  *)
(* raises ValueError for every dpi <= 0, whatever the value, and returns   *)
(* a value without raising for every dpi > 0.                              *)
(***************************************************************************)
C3_DpiGuard ==
    uc.status = "done" =>
        /\ RLe(uc.dpi, Zero) => uc.out.raised = "ValueError"
        /\ RLt(Zero, uc.dpi) => (uc.out.raised = "none" /\ uc.out.value # None)

C3_Witness ==
    /\ uc.status = "done"
    /\ uc.fn = "convert_distance"
    /\ uc.dpi = Zero
    /\ uc.out.raised = "ValueError"

(***************************************************************************)
(* Specification SpecThreshold: the three threshold entry points on every  *)
(* method name (known, unknown, None, absent) and every key style          *)
(***************************************************************************)
KnownMethods == {"global", "adaptive_gaussian", "otsu", "niblack", "sauvola"}

\* the method key (or argument) is not given at all
Absent == "<absent>"

MethodInputs == KnownMethods \cup {"bogus", NoneStr, Absent}

\* the method-prefixed keys, with the controller's built-in values
PrefixedKeys ==
    [global_value |-> RInt(127), adaptive_block_size |-> RInt(11),
     adaptive_c_value |-> RInt(2), niblack_window_size |-> RInt(25),
     niblack_k |-> R(-2, 10), sauvola_window_size |-> RInt(25),
     sauvola_k |-> R(2, 10), sauvola_r |-> RInt(128)]

\* the legacy flat keys
FlatKeys ==
    [value |-> RInt(100), block_size |-> RInt(12), c |-> RInt(3),
     window_size |-> RInt(14), k |-> R(1, 2), r |-> RInt(64)]

KeyInputs == {EmptyDict, PrefixedKeys, FlatKeys, PrefixedKeys @@ FlatKeys}

ThresholdEntries ==
    {"FractureAnalyzer._apply_threshold", "PoreAnalyzer._apply_threshold",
     "ImageProcessor.apply_threshold"}

\* the threshold section as the analyzers read it
ThresholdSection(method, keys) ==
    IF method = Absent THEN keys ELSE [method |-> method] @@ keys

ThInit ==
    /\ dg = None
    /\ uc = None
    /\ an = None
    /\ ct = None
    /\ mg = None
    /\ th \in [entry : ThresholdEntries, image : {InputImage(1), InputImage(3)},
               method : MethodInputs, keys : KeyInputs,
               status : {"pending"}, out : {None}]

ThCall(entry, out) ==
    /\ th.status = "pending"
    /\ th.entry = entry
    /\ th' = [th EXCEPT !.status = "done", !.out = out]
    /\ UNCHANGED <<uc, an, ct, mg, dg>>

CallFractureApplyThreshold ==
    ThCall("FractureAnalyzer._apply_threshold",
           FractureAnalyzer_apply_threshold(th.image, ThresholdSection(th.method, th.keys)))

CallPoreApplyThreshold ==
    ThCall("PoreAnalyzer._apply_threshold",
           PoreAnalyzer_apply_threshold(th.image, ThresholdSection(th.method, th.keys)))

\* apply_threshold(image, method='global', params=None)
CallImageProcessorApplyThreshold ==
    ThCall("ImageProcessor.apply_threshold",
           ImageProcessor_apply_threshold(th.image,
               IF th.method = Absent THEN "global" ELSE th.method, th.keys))

ThNext ==
    \/ CallFractureApplyThreshold
    \/ CallPoreApplyThreshold
    \/ CallImageProcessorApplyThreshold

SpecThreshold == ThInit /\ [][ThNext]_vars

(***************************************************************************)
(* C1: at every threshold entry point a method name that is not one of the *)
(* five known names (a missing method included) makes the call fail with   *)
(* an error; the input image is never returned unchanged and no default    *)
(* method is substituted.                                                  *)
(***************************************************************************)
C1_UnknownMethodFails ==
    (th.status = "done" /\ th.method \notin KnownMethods) => th.out.raised # "none"

(***************************************************************************)
(* Contour geometry.  A contour is a sequence of integer points <<x, y>>.  *)
(* The OpenCV routines the analyzers call on contours are computed         *)
(* exactly over the integers; a rotated rectangle is kept in the frame of  *)
(* its side direction e = <<a, b>>: a point p has coordinates u = p.e and  *)
(* v = p.perp(e), both scaled by |e|, so the side lengths are U/|e| and    *)
(* V/|e| and every comparison the code makes is between rationals.         *)
(***************************************************************************)
Dot(p, q) == p[1] * q[1] + p[2] * q[2]

Sub(p, q) == <<p[1] - q[1], p[2] - q[2]>>

Dist2(p, q) == Dot(Sub(p, q), Sub(p, q))

SetMin(S) == CHOOSE x \in S : \A y \in S : x <= y

\* float -> int conversion of x / n (n > 0): truncation toward zero
Trunc(x, n) == IF x >= 0 THEN x \div n ELSE -((-x) \div n)

\* cv2.contourArea: the absolute shoelace area of the closed polygon
contourArea(contour) ==
    LET n == Len(contour)
        Nxt(i) == IF i = n THEN 1 ELSE i + 1
        RECURSIVE Sum(_)
        Sum(i) == IF i > n THEN 0
                  ELSE contour[i][1] * contour[Nxt(i)][2]
                       - contour[Nxt(i)][1] * contour[i][2] + Sum(i + 1)
    IN  R(Abs(Sum(1)), 2)

\* cv2.convexHull: the hull's vertices, counter-clockwise from the leftmost one
convexHull(points) ==
    LET S == {points[i] : i \in DOMAIN points}
        \* > 0 when r lies to the left of the ray from p through q
        Cross(p, q, r) == (q[1] - p[1]) * (r[2] - p[2]) - (q[2] - p[2]) * (r[1] - p[1])
        start == CHOOSE p \in S :
                    \A q \in S : p[1] < q[1] \/ (p[1] = q[1] /\ p[2] <= q[2])
        After(p) == CHOOSE q \in S \ {p} :
                       \A r \in S \ {p, q} :
                          \/ Cross(p, q, r) > 0
                          \/ (Cross(p, q, r) = 0 /\ Dist2(p, r) < Dist2(p, q))
        RECURSIVE Walk(_, _)
        Walk(p, acc) == LET q == After(p)
                        IN  IF q = start THEN acc ELSE Walk(q, Append(acc, q))
    IN  IF Cardinality(S) = 1 THEN <<start>> ELSE Walk(start, <<start>>)

\* the angle of direction e (a >= 0, b > 0) rounded to whole degrees;
\* TanHalfDegree[k] is tan((k - 1/2) degrees) * 10000 for k = 1 .. 90
AngleDeg(e) ==
    LET TanHalfDegree ==
            <<87, 262, 437, 612, 787, 963, 1139, 1317, 1495, 1673,
              1853, 2035, 2217, 2401, 2586, 2773, 2962, 3153, 3346, 3541,
              3739, 3939, 4142, 4348, 4557, 4770, 4986, 5206, 5430, 5658,
              5890, 6128, 6371, 6619, 6873, 7133, 7400, 7673, 7954, 8243,
              8541, 8847, 9163, 9490, 9827, 10176, 10538, 10913, 11303, 11708,
              12131, 12572, 13032, 13514, 14019, 14550, 15108, 15697, 16319, 16977,
              17675, 18418, 19210, 20057, 20965, 21943, 22998, 24142, 25386, 26746,
              28239, 29887, 31716, 33759, 36059, 38667, 41653, 45107, 49152, 53955,
              59758, 66912, 75958, 87769, 103854, 127062, 163499, 229038, 381885,
              1145887>>
    IN  IF e[1] = 0 THEN 90
        ELSE Cardinality({k \in 1 .. 90 : TanHalfDegree[k] * e[1] <= 10000 * e[2]})

\* the bounding rectangle of point set S with sides along e and its normal
RectAlong(S, e) ==
    LET us == {Dot(p, e) : p \in S}
        vs == {Dot(p, <<-e[2], e[1]>>) : p \in S}
    IN  [e |-> e, n |-> Dot(e, e),
         umin |-> SetMin(us), umax |-> -SetMin({-u : u \in us}),
         vmin |-> SetMin(vs), vmax |-> -SetMin({-v : v \in vs})]

\* rect[1] = (w, h), both scaled by |e|
RectW(rect) == rect.umax - rect.umin

RectH(rect) == rect.vmax - rect.vmin

\* cv2.minAreaRect: a minimum-area enclosing rectangle has a side along an
\* edge of the hull, so it is the least among the rectangles along the
\* directions between two points of the contour; a direction is turned by
\* quarter turns into the range (0, 90] degrees of the rectangle's angle
minAreaRect(contour) ==
    LET S == {contour[i] : i \in DOMAIN contour}
        Turned(x, y) == IF x >= 0 /\ y > 0 THEN <<x, y>>
                        ELSE IF x < 0 /\ y >= 0 THEN <<y, -x>>
                        ELSE IF x <= 0 /\ y < 0 THEN <<-x, -y>>
                        ELSE <<-y, x>>
        Reduced(d, g) == Turned(d[1] \div g, d[2] \div g)
        NormDir(d) == Reduced(d, GCD(Abs(d[1]), Abs(d[2])))
        Dirs == {NormDir(Sub(pq[2], pq[1])) : pq \in {pq \in S \X S : pq[1] # pq[2]}}
        Cand == {RectAlong(S, e) : e \in Dirs}
        Less(r, s) == RectW(r) * RectH(r) * s.n <= RectW(s) * RectH(s) * r.n
    IN  IF Cardinality(S) = 1 THEN RectAlong(S, <<0, 1>>)
        ELSE CHOOSE r \in Cand : \A s \in Cand : Less(r, s)

\* cv2.boxPoints(rect).astype(int)
boxPoints(rect) ==
    LET a == rect.e[1]
        b == rect.e[2]
        Corner(u, v) == <<Trunc(u * a - v * b, rect.n), Trunc(u * b + v * a, rect.n)>>
    IN  <<Corner(rect.umin, rect.vmax), Corner(rect.umin, rect.vmin),
          Corner(rect.umax, rect.vmin), Corner(rect.umax, rect.vmax)>>

get_contour_endpoints(contour) ==
    LET Mid(p, q) == <<Trunc(p[1] + q[1], 2), Trunc(p[2] + q[2], 2)>>
        \* np.argmin of the distances from the contour's points to mid
        ArgMin(mid) ==
            SetMin({i \in DOMAIN contour :
                       \A j \in DOMAIN contour :
                          Dist2(contour[i], mid) <= Dist2(contour[j], mid)})
        Nearest(mid1, mid2) == <<contour[ArgMin(mid1)], contour[ArgMin(mid2)]>>
        Endpoints(p1, p2, p3, p4) ==
            IF Dist2(p1, p2) > Dist2(p2, p3)          \* d12_sq > d23_sq
            THEN Nearest(Mid(p1, p2), Mid(p3, p4))
            ELSE Nearest(Mid(p2, p3), Mid(p4, p1))
        OfBox(box) == Endpoints(box[1], box[2], box[3], box[4])
    IN  OfBox(boxPoints(minAreaRect(contour)))

merge_contours(contour1, contour2) == convexHull(contour1 \o contour2)


(***************************************************************************)
(* image_operations.py: morphological post-processing                      *)
(***************************************************************************)
create_morphology_kernel(kernel_shape, kernel_size) ==
    <<"getStructuringElement",
      IF kernel_shape \in {"rect", "cross", "ellipse"} THEN kernel_shape ELSE "rect",
      kernel_size>>

_remove_small_noise_by_area(image, min_area) ==
    LibCall(image, <<"connectedComponentsWithStats", 8, "keep area >=", min_area>>)

\* one of the two stages; p['kernel_shape'] and p['kernel_size'] are plain lookups
MorphStage(image, p, op) ==
    IF ~("kernel_shape" \in DOMAIN p /\ "kernel_size" \in DOMAIN p) THEN Raise("KeyError")
    ELSE LET kernel == create_morphology_kernel(p.kernel_shape, p.kernel_size)
             iterations == Get(p, "iterations", RInt(1))
             min_area == Get(p, "min_area", Zero)
             done == LibCall(image, <<"morphologyEx", op, kernel, iterations>>)
         IN  IF op = "MORPH_OPEN" /\ RLt(Zero, min_area)
             THEN Return(_remove_small_noise_by_area(done, min_area))
             ELSE Return(done)

apply_morphological_postprocessing(binary_image, opening_params, closing_params) ==
    LET processed_image == LibCall(binary_image, <<"copy">>)
        opened == IF opening_params # EmptyDict /\ Get(opening_params, "enabled", FALSE)
                  THEN MorphStage(processed_image, opening_params, "MORPH_OPEN")
                  ELSE Return(processed_image)
    IN  IF opened.raised # "none" THEN opened
        ELSE IF closing_params # EmptyDict /\ Get(closing_params, "enabled", FALSE)
        THEN MorphStage(opened.value, closing_params, "MORPH_CLOSE")
        ELSE opened

(***************************************************************************)
(* fracture_analyzer.py                                                    *)
(***************************************************************************)
\* a truthy number: neither None nor zero
Truthy(x) == x # None /\ x # Zero

\* returns the pair (opening_params, closing_params)
FractureAnalyzer_prepare_morph_params(morph_params) ==
    LET Adapt(sub, ksize_key, iter_key) ==
            LET base == Get(morph_params, sub, EmptyDict)
                ksize == Get(morph_params, ksize_key, None)
                iter == Get(morph_params, iter_key, None)
                sized == IF Truthy(ksize) THEN Put(base, "kernel_size", <<ksize, ksize>>)
                         ELSE base
            IN  IF iter # None THEN Put(sized, "iterations", iter) ELSE sized
    IN  <<Adapt("opening", "open_kernel_size", "open_iterations"),
          Adapt("closing", "close_kernel_size", "close_iterations")>>

\* np.sum(skeletonize(mask / 255)) for the filled contour: the thinned centre
\* line runs along the long side of the region between its end caps, and a
\* line of pixels has as many pixels as its longer coordinate span
skeleton_pixels(contour) ==
    LET Pixels(rect) ==
            (Abs(RectW(rect) - RectH(rect))
               * (IF rect.e[1] > rect.e[2] THEN rect.e[1] ELSE rect.e[2])) \div rect.n + 1
    IN  Pixels(minAreaRect(contour))

\* max(w, h) / min(w, h) if min(w, h) > 0 else 0
RectAspect(rect) ==
    IF RectW(rect) = 0 \/ RectH(rect) = 0 THEN Zero
    ELSE IF RectW(rect) > RectH(rect) THEN R(RectW(rect), RectH(rect))
    ELSE R(RectH(rect), RectW(rect))

\* the properties computed for one contour (lines 186-198 and 257-266)
FractureProps(contour, rect) ==
    [contour |-> contour,
     area_pixels |-> contourArea(contour),
     length_pixels |-> RInt(skeleton_pixels(contour)),
     aspect_ratio |-> RectAspect(rect),
     angle |-> AngleDeg(rect.e)]

\* contours is what cv2.findContours reports on binary_image
FractureAnalyzer_analyze_and_filter_fractures(contours, params) ==
    LET min_aspect_ratio == Get(params, "min_aspect_ratio", RInt(5))
        min_length_pixels == Get(params, "min_length_pixels", Zero)
        Accepted(c, rect) ==
            /\ ~(RectW(rect) = 0 \/ RectH(rect) = 0)
            /\ RLe(min_aspect_ratio, RectAspect(rect))
            /\ RLe(min_length_pixels, RInt(skeleton_pixels(c)))
        Valid(c) == Len(c) >= 5 /\ Accepted(c, minAreaRect(c))
        kept == SelectSeq(contours, Valid)
    IN  [i \in DOMAIN kept |-> FractureProps(kept[i], minAreaRect(kept[i]))]

\* lines 233-252: the test applied to a popped fracture and an accepted one
Mergeable(base_fracture, target_fracture, max_angle_diff, merge_dist_pixels) ==
    LET Within(dist_sq, limit) == RLt(Zero, limit) /\ RLt(RInt(dist_sq), RMul(limit, limit))
        AngleDiff(base, target) ==
            LET angle_diff == Abs(base.angle - target.angle)
            IN  IF angle_diff < 180 - angle_diff THEN angle_diff ELSE 180 - angle_diff
        \* the square of min_dist
        MinDist2(base, target) ==
            LET b == get_contour_endpoints(base.contour)
                t == get_contour_endpoints(target.contour)
            IN  SetMin({Dist2(b[i], t[j]) : i \in 1 .. 2, j \in 1 .. 2})
    IN  /\ ~RLt(max_angle_diff, RInt(AngleDiff(base_fracture, target_fracture)))
        \* min_dist < merge_dist_pixels
        /\ Within(MinDist2(base_fracture, target_fracture), merge_dist_pixels)

MergeTurn_without_break(base_fracture, merged_fractures, max_angle_diff, merge_dist_pixels) ==
    LET Props(new_contour) == FractureProps(new_contour, minAreaRect(new_contour))
        Merged(base, target) == Props(merge_contours(base.contour, target.contour))
        hits == {i \in DOMAIN merged_fractures :
                    Mergeable(base_fracture, merged_fractures[i],
                              max_angle_diff, merge_dist_pixels)}
    IN  IF hits = {}
        THEN [merged_fractures |-> Append(merged_fractures, base_fracture),
              compared |-> Len(merged_fractures), index |-> 0]
        ELSE [merged_fractures |->
                  [i \in DOMAIN merged_fractures |->
                      IF i \in hits THEN Merged(base_fracture, merged_fractures[i])
                      ELSE merged_fractures[i]],
              compared |-> Len(merged_fractures), index |-> SetMin(hits)]

\* lines 228-279: one turn of the while loop for the popped base_fracture.
\* The accepted list after the turn, the number of accepted entries the
\* popped fracture was compared with, and the index it was merged into
\* (0 when it was appended).
MergeTurn(base_fracture, merged_fractures, max_angle_diff, merge_dist_pixels) ==
    LET Props(new_contour) == FractureProps(new_contour, minAreaRect(new_contour))
        Merged(base, target) == Props(merge_contours(base.contour, target.contour))
        RECURSIVE Scan(_)
        Scan(i) ==
            IF i > Len(merged_fractures)
            THEN [merged_fractures |-> Append(merged_fractures, base_fracture),
                  compared |-> i - 1, index |-> 0]
            ELSE IF Mergeable(base_fracture, merged_fractures[i],
                              max_angle_diff, merge_dist_pixels)
            THEN [merged_fractures |->
                      [merged_fractures EXCEPT ![i] = Merged(base_fracture, @)],
                  compared |-> i, index |-> i]
            ELSE Scan(i + 1)
    IN  Scan(1)

FractureAnalyzer_merge_fractures_appending(fractures, params, dpi) ==
    Return(fractures \o fractures)

FractureAnalyzer_merge_fractures(fractures, params, dpi) ==
    IF ~Get(params, "enabled", FALSE) \/ Len(fractures) < 2 THEN Return(fractures)
    ELSE IF dpi = None THEN Raise("TypeError")              \* None <= 0
    ELSE IF RLe(dpi, Zero) THEN Return(fractures)
    ELSE
    LET merge_dist_mm == Get(params, "merge_distance_mm", RInt(2))
        max_angle_diff == Get(params, "max_angle_diff", RInt(15))
        merge_dist_pixels == mm_to_pixels(merge_dist_mm, dpi).value
        RECURSIVE Loop(_, _)
        Loop(fractures_to_merge, merged_fractures) ==
            IF fractures_to_merge = <<>> THEN merged_fractures
            ELSE Loop(Tail(fractures_to_merge),
                      MergeTurn(Head(fractures_to_merge), merged_fractures,
                                max_angle_diff, merge_dist_pixels).merged_fractures)
    IN  Return(Loop(fractures, <<>>))


FractureAnalyzer_draw_analysis_results(original_image, fractures) ==
    IF fractures = <<>> THEN original_image
    ELSE LET RECURSIVE Draw(_, _)
             Draw(result_image, i) ==
                 IF i > Len(fractures) THEN result_image
                 ELSE Draw(LibCall(result_image,
                                   <<"drawContours", fractures[i].contour, <<0, 0, 255>>, 2>>),
                           i + 1)
         IN  Draw(LibCall(original_image, <<"copy">>), 1)

\* sum(f[key] for f in features)
SumOf(features, key) ==
    LET RECURSIVE Sum(_)
        Sum(i) == IF i > Len(features) THEN Zero ELSE RAdd(features[i][key], Sum(i + 1))
    IN  Sum(1)

FractureAnalyzer_calculate_measurements(fractures) ==
    [count |-> Len(fractures),
     total_area_pixels |-> SumOf(fractures, "area_pixels"),
     total_length_pixels |-> SumOf(fractures, "length_pixels"),
     details |-> fractures]

\* lines 312-315
FractureAnalyzer_is_result_empty(results) ==
    LET measurements == Get(results, "measurements", EmptyDict)
    IN  Get(measurements, "count", 0) = 0

\* the outcome of a call that was handed the dictionary results: what it
\* returned or raised, and the caller's dictionary as the call left it
Outcome(out, results) == [raised |-> out.raised, value |-> out.value, results |-> results]

\* the conversions of post_process_measurements: each pair <<pixel key, mm key>>
\* of Conversions whose pixel key is in d is converted with its converter
Converted(d, Conversions, dpi) ==
    LET Conv(c) == IF c[3] = "area" THEN convert_area(d[c[1]], dpi)
                   ELSE convert_distance(d[c[1]], dpi)
        due == {c \in Conversions : c[1] \in DOMAIN d}
        failed == {c \in due : Conv(c).raised # "none"}
        new == [k \in {c[2] : c \in due} |->
                   Conv(CHOOSE c \in due : c[2] = k).value]
    IN  IF failed # {} THEN Raise("ValueError") ELSE Return(new @@ d)

\* post_process_measurements of both analyzers; Totals and PerDetail are the
\* fields the analyzer converts
PostProcess(results, dpi, Totals, PerDetail) ==
    LET measurements == Get(results, "measurements", EmptyDict)
        converted_measurements == Converted(measurements, Totals, dpi)
        details == Get(measurements, "details", <<>>)
        converted_details == [i \in DOMAIN details |-> Converted(details[i], PerDetail, dpi)]
    IN  IF measurements = EmptyDict \/ ~Truthy(dpi) THEN Outcome(Return(results), results)
        ELSE IF converted_measurements.raised # "none"
        THEN Outcome(converted_measurements, results)
        ELSE IF "details" \in DOMAIN measurements
                /\ \E i \in DOMAIN details : converted_details[i].raised # "none"
        THEN Outcome(Raise("ValueError"), results)
        ELSE LET with_details ==
                     IF "details" \in DOMAIN measurements
                     THEN Put(converted_measurements.value, "details",
                              [i \in DOMAIN details |-> converted_details[i].value])
                     ELSE converted_measurements.value
             IN  Outcome(Return(Put(results, "measurements", with_details)), results)

FractureAnalyzer_post_process_measurements_in_place(results, dpi) ==
    LET out == PostProcess(results, dpi,
                   {<<"total_area_pixels", "total_area_mm2", "area">>,
                    <<"total_length_pixels", "total_length_mm", "distance">>},
                   {<<"area_pixels", "area_mm2", "area">>,
                    <<"length_pixels", "length_mm", "distance">>})
    IN  Outcome(out, out.value)

FractureAnalyzer_post_process_measurements(results, dpi) ==
    PostProcess(results, dpi,
        {<<"total_area_pixels", "total_area_mm2", "area">>,
         <<"total_length_pixels", "total_length_mm", "distance">>},
        {<<"area_pixels", "area_mm2", "area">>,
         <<"length_pixels", "length_mm", "distance">>})

(***************************************************************************)
(* pore_analyzer.py                                                        *)
(***************************************************************************)
\* markers, sure_fg, sure_bg, unknown of _prepare_for_watershed, as one reading
PoreAnalyzer_prepare_for_watershed(thresh, params) ==
    LET ksize == Get(params, "opening_ksize", RInt(3))
        iterations == Get(params, "opening_iterations", RInt(2))
        bg_ksize == Get(params, "sure_bg_ksize", RInt(3))
        opening == LibCall(thresh, <<"morphologyEx", "MORPH_OPEN", <<"ones", ksize, ksize>>,
                                     iterations>>)
    IN  LibCall(opening, <<"markers", <<"dilate", <<"ones", bg_ksize, bg_ksize>>, 1>>,
                           <<"distanceTransform", "DIST_L2", 5>>,
                           <<"threshold", R(6, 10), "* dist_transform.max()">>>>)

\* regions is the reading of the label image: for each label of np.unique
\* (markers), in order, the external contours of its mask
PoreAnalyzer_analyze_and_filter_pores(regions, params) ==
    LET min_solidity == Get(params, "min_solidity", R(85, 100))
        min_area == Get(params, "min_area_pixels", RInt(20))
        \* max(contours, key=cv2.contourArea): the first of the largest
        Largest(contours) ==
            contours[SetMin({i \in DOMAIN contours : \A j \in DOMAIN contours :
                                RLe(contourArea(contours[j]), contourArea(contours[i]))})]
        HullArea(c) == contourArea(convexHull(c))
        Valid(region) ==
            /\ region.label >= 2
            /\ region.contours # <<>>
            /\ LET contour == Largest(region.contours)
               IN  /\ ~(RLt(contourArea(contour), min_area) \/ HullArea(contour) = Zero)
                   /\ ~RLt(RDiv(contourArea(contour), HullArea(contour)), min_solidity)
        kept == SelectSeq(regions, Valid)
    IN  [i \in DOMAIN kept |->
            LET contour == Largest(kept[i].contours)
            IN  [contour |-> contour,
                 area_pixels |-> contourArea(contour),
                 solidity |-> RDiv(contourArea(contour), HullArea(contour))]]

PoreAnalyzer_draw_analysis_results(image, pores) ==
    LET RECURSIVE Draw(_, _)
        Draw(result_image, i) ==
            IF i > Len(pores) THEN result_image
            ELSE Draw(LibCall(LibCall(result_image,
                                      <<"drawContours", pores[i].contour, "random color", 2>>),
                              <<"fillPoly", pores[i].contour, "random color">>),
                      i + 1)
    IN  Draw(image, 1)

PoreAnalyzer_calculate_measurements(pores, image_area_pixels) ==
    [count |-> Len(pores),
     total_area_pixels |-> SumOf(pores, "area_pixels"),
     porosity |-> IF image_area_pixels > 0
                  THEN RDiv(SumOf(pores, "area_pixels"), RInt(image_area_pixels))
                  ELSE Zero,
     details |-> pores]

\* lines 219-221
PoreAnalyzer_is_result_empty(results) ==
    Get(Get(results, "measurements", EmptyDict), "count", 0) = 0

PoreAnalyzer_post_process_measurements(results, dpi) ==
    PostProcess(results, dpi,
        {<<"total_area_pixels", "total_area_mm2", "area">>},
        {<<"area_pixels", "area_mm2", "area">>})


(***************************************************************************)
(* Specification SpecAnalysis: one analyzer call (run_analysis or          *)
(* run_staged_analysis of either analyzer), one stage per step, followed   *)
(* for run_analysis by post_process_measurements on its result.            *)
(***************************************************************************)
Translate(contour, dx, dy) ==
    [i \in DOMAIN contour |-> <<contour[i][1] + dx, contour[i][2] + dy>>]

\* the largest vertical gap between two parallel streaks
MaxGap == 5

\* Inputs: contours as cv2.findContours reports them, of an 8 x 2 horizontal
\* streak, a diagonal streak and a 3 x 3 blob
FractureScenes ==
    LET Bar == <<<<0, 1>>, <<1, 0>>, <<7, 0>>, <<8, 1>>, <<7, 2>>, <<1, 2>>>>
        Diagonal == <<<<0, 1>>, <<1, 0>>, <<4, 3>>, <<6, 5>>, <<5, 6>>>>
        Blob == <<<<0, 0>>, <<3, 0>>, <<3, 3>>, <<0, 3>>>>
    IN  {<<>>, <<Bar>>, <<Blob, Bar>>, <<Bar, Translate(Diagonal, 2, 4)>>,
         <<Bar, Translate(Bar, 10, 0)>>,
         <<Bar, Translate(Bar, 0, 4), Translate(Bar, 0, 8)>>}
        \cup {<<Bar, Translate(Bar, 0, g)>> : g \in 4 .. MaxGap}

\* Inputs: the regions of a watershed label image, [label, contours], with a
\* blob, a thick L, a one-pixel-wide L (traced out and back) and a single pixel
PoreScenes ==
    LET Region(label, contours) == [label |-> label, contours |-> contours]
        Frame == <<<<0, 0>>, <<31, 0>>, <<31, 31>>, <<0, 31>>>>
        Blob == <<<<10, 10>>, <<13, 10>>, <<13, 13>>, <<10, 13>>>>
        ThickL == <<<<8, 8>>, <<8, 14>>, <<14, 14>>, <<14, 12>>, <<10, 12>>, <<10, 8>>>>
        ThinL == <<<<0, 0>>, <<0, 3>>, <<3, 3>>, <<0, 3>>>>
        Pixel == <<<<5, 5>>>>
    IN  {<<Region(-1, <<Frame>>), Region(1, <<Frame>>)>>,
         <<Region(-1, <<Frame>>), Region(1, <<Frame>>), Region(2, <<Blob>>)>>,
         <<Region(-1, <<Frame>>), Region(1, <<Frame>>), Region(2, <<ThickL>>),
           Region(3, <<ThinL, Translate(Pixel, 9, 0)>>)>>,
         <<Region(-1, <<Frame>>), Region(1, <<Frame>>), Region(2, <<>>),
           Region(3, <<Pixel>>), Region(4, <<Blob>>)>>}

\* the params tree: a section that is empty is left out
Params(threshold, morphology, filtering, merging) ==
    LET given == {s \in {<<"threshold", threshold>>, <<"morphology", morphology>>,
                         <<"filtering", filtering>>, <<"merging", merging>>} :
                     s[2] # EmptyDict}
    IN  [k \in {s[1] : s \in given} |-> (CHOOSE s \in given : s[1] = k)[2]]

Call(analyzer, fn, image, params, dpi, stage_key, scene) ==
    [analyzer |-> analyzer, fn |-> fn, image |-> image, shape |-> <<32, 32>>,
     params |-> params, dpi |-> dpi, stage_key |-> stage_key, scene |-> scene,
     pc |-> "start", locals |-> EmptyDict, trace |-> <<>>, result |-> None, post |-> None,
     empty |-> None]

\* calls that vary the image and the threshold and morphology sections
StageCalls ==
    LET ThresholdInputs ==
            {EmptyDict, [method |-> "bogus"], [method |-> "global"],
             [method |-> "global", global_value |-> RInt(127)]}
        MorphologyInputs ==
            {EmptyDict,
             [opening |-> [enabled |-> TRUE]],
             \* the morphology section of the Controller's built-in parameters
             [open_kernel_size |-> RInt(3), open_iterations |-> RInt(1),
              close_kernel_size |-> RInt(3), close_iterations |-> RInt(1)],
             [open_kernel_size |-> Zero, close_kernel_size |-> Zero,
              opening |-> [enabled |-> TRUE, kernel_shape |-> "rect"],
              closing |-> [enabled |-> TRUE, kernel_shape |-> "rect"]],
             [open_kernel_size |-> RInt(3), close_kernel_size |-> Zero,
              opening |-> [enabled |-> TRUE, kernel_shape |-> "rect"],
              closing |-> [enabled |-> FALSE, kernel_shape |-> "rect"]],
             [open_kernel_size |-> RInt(3), open_iterations |-> RInt(1),
              close_kernel_size |-> RInt(3), close_iterations |-> RInt(1),
              opening |-> [enabled |-> TRUE, kernel_shape |-> "rect", min_area |-> RInt(10)],
              closing |-> [enabled |-> TRUE, kernel_shape |-> "ellipse"],
              opening_ksize |-> RInt(5), opening_iterations |-> RInt(1),
              sure_bg_ksize |-> RInt(5), distance_transform_threshold_ratio |-> R(1, 2)]}
        Scenes(a) == {s \in IF a = "fracture" THEN FractureScenes ELSE PoreScenes :
                         Len(s) = 3}
    IN  {Call(a, "run_analysis", InputImage(ch), Params(t, m, EmptyDict, [enabled |-> TRUE]),
              RInt(254), NoneStr, CHOOSE s \in Scenes(a) : TRUE) :
            a \in {"fracture", "pore"}, ch \in {1, 3},
            t \in ThresholdInputs, m \in MorphologyInputs}
        \cup
        {Call(a, "run_staged_analysis", InputImage(ch), Params(t, m, EmptyDict, EmptyDict),
              None, k, <<>>) :
            a \in {"fracture", "pore"}, ch \in {1, 3},
            k \in {"binary", "morph", "detection"},
            t \in ThresholdInputs, m \in MorphologyInputs}

\* calls that vary the contours, the filtering and merging sections and the
\* DPI: None (no DPI known), negative, zero and a valid resolution
FeatureCalls ==
    LET DpiCases == {None, RInt(-1), Zero, RInt(254)}
        FractureFilteringInputs ==
            {EmptyDict,
             [min_aspect_ratio |-> RInt(4), min_length_mm |-> RInt(5)],
             [min_aspect_ratio |-> RInt(1), min_length_pixels |-> RInt(6)]}
        MergingInputs ==
            {EmptyDict, [enabled |-> FALSE], [enabled |-> TRUE],
             [enabled |-> TRUE, merge_distance_mm |-> R(1, 10)],
             [enabled |-> TRUE, max_angle_diff |-> RInt(50)]}
        \* the ranges of the pore filtering dialog: solidity 0 .. 100 percent,
        \* area 0 .. 500
        PoreFilteringInputs ==
            {EmptyDict}
            \cup [min_solidity : {Zero, R(1, 2), R(85, 100), RInt(1)},
                  min_area_pixels : {Zero, RInt(1), RInt(20), RInt(500)}]
    IN  {Call("fracture", "run_analysis", InputImage(3),
              Params([method |-> "otsu"], EmptyDict, f, g), dpi, NoneStr, scene) :
            f \in FractureFilteringInputs, g \in MergingInputs,
            dpi \in DpiCases, scene \in FractureScenes}
        \cup
        {Call("pore", "run_analysis", InputImage(3),
              Params([method |-> "otsu"], EmptyDict, f, EmptyDict), dpi, NoneStr, scene) :
            f \in PoreFilteringInputs, dpi \in DpiCases, scene \in PoreScenes}

AnInit ==
    /\ dg = None
    /\ uc = None
    /\ th = None
    /\ ct = None
    /\ mg = None
    /\ an \in StageCalls \cup FeatureCalls


\* params.get(section, {})
Section(name) == Get(an.params, name, EmptyDict)

\* a stage completes: its locals are bound and control moves on
Advance(stage, pc, bound) ==
    /\ an' = [an EXCEPT !.pc = pc, !.trace = Append(@, stage), !.locals = bound @@ @]
    /\ UNCHANGED <<uc, th, ct, mg, dg>>

\* a stage raises: the exception leaves the call
Fail(stage, out) ==
    /\ an' = [an EXCEPT !.pc = "raised", !.trace = Append(@, stage), !.result = out]
    /\ UNCHANGED <<uc, th, ct, mg, dg>>

\* the call returns value
Finish(stage, value) ==
    /\ an' = [an EXCEPT !.pc = "returned", !.trace = Append(@, stage),
                        !.result = Return(value)]
    /\ UNCHANGED <<uc, th, ct, mg, dg>>

At(analyzer, fns, pc) ==
    /\ an.analyzer = analyzer
    /\ an.fn \in fns
    /\ an.pc = pc

\* FractureAnalyzer, lines 35-36 and 85-86
FracturePreprocess ==
    /\ At("fracture", {"run_analysis", "run_staged_analysis"}, "start")
    /\ LET gray == convert_to_grayscale(an.image)
       IN  Advance("preprocess", "preprocessed",
                   [gray |-> gray, blurred |-> apply_gaussian_blur(gray, None)])

\* lines 40 and 89
FractureThreshold ==
    /\ At("fracture", {"run_analysis", "run_staged_analysis"}, "preprocessed")
    /\ LET binary == FractureAnalyzer_apply_threshold(an.locals.blurred, Section("threshold"))
       IN  IF binary.raised # "none" THEN Fail("threshold", binary)
           ELSE Advance("threshold", "thresholded", [binary |-> binary.value])

FractureStagedReturnBinary_after_morphology ==
    /\ At("fracture", {"run_staged_analysis"}, "thresholded")
    /\ an.stage_key = "binary"
    /\ an' = [an EXCEPT !.pc = "returned", !.trace = @ \o <<"morphology", "return">>,
                        !.result = Return([previews |-> [gray |-> an.locals.gray,
                                                         binary |-> an.locals.binary]])]
    /\ UNCHANGED <<uc, th, ct, mg, dg>>

\* lines 91-97
FractureStagedReturnBinary ==
    /\ At("fracture", {"run_staged_analysis"}, "thresholded")
    /\ an.stage_key = "binary"
    /\ Finish("return", [previews |-> [gray |-> an.locals.gray, binary |-> an.locals.binary]])

\* lines 44-49 and 100-105
FractureMorphology ==
    /\ At("fracture", {"run_analysis", "run_staged_analysis"}, "thresholded")
    /\ ~(an.fn = "run_staged_analysis" /\ an.stage_key = "binary")
    /\ LET prepared == FractureAnalyzer_prepare_morph_params(Section("morphology"))
           binary_processed ==
               apply_morphological_postprocessing(an.locals.binary, prepared[1], prepared[2])
       IN  IF binary_processed.raised # "none" THEN Fail("morphology", binary_processed)
           ELSE Advance("morphology", "morphed", [binary_processed |-> binary_processed.value])

\* lines 106-112
FractureStagedReturnMorph ==
    /\ At("fracture", {"run_staged_analysis"}, "morphed")
    /\ Finish("return", [previews |-> [gray |-> an.locals.gray, binary |-> an.locals.binary,
                                       morph |-> an.locals.binary_processed]])

\* lines 53-56; an.scene is what cv2.findContours reports on binary_processed
FractureFeatures ==
    /\ At("fracture", {"run_analysis"}, "morphed")
    /\ Advance("features", "filtered",
               [fractures |-> FractureAnalyzer_analyze_and_filter_fractures(
                                  an.scene, Section("filtering"))])

\* line 60
FractureMerge ==
    /\ At("fracture", {"run_analysis"}, "filtered")
    /\ LET merged_fractures ==
               FractureAnalyzer_merge_fractures(an.locals.fractures, Section("merging"), an.dpi)
       IN  IF merged_fractures.raised # "none" THEN Fail("merge", merged_fractures)
           ELSE Advance("merge", "merged", [merged_fractures |-> merged_fractures.value])

\* lines 64-80
FractureFinish ==
    /\ At("fracture", {"run_analysis"}, "merged")
    /\ Finish("return",
              [visualization |-> FractureAnalyzer_draw_analysis_results(
                                     LibCall(an.image, <<"copy">>), an.locals.merged_fractures),
               measurements |->
                   FractureAnalyzer_calculate_measurements(an.locals.merged_fractures),
               previews |-> [gray |-> an.locals.gray, binary |-> an.locals.binary,
                             morph |-> an.locals.binary_processed]])

\* the caller hands the result of run_analysis to post_process_measurements
PostProcessed(out) ==
    /\ an' = [an EXCEPT !.pc = "post", !.trace = Append(@, "post_process"), !.post = out]
    /\ UNCHANGED <<uc, th, ct, mg, dg>>

FracturePostProcess ==
    /\ At("fracture", {"run_analysis"}, "returned")
    /\ PostProcessed(FractureAnalyzer_post_process_measurements(an.result.value, an.dpi))

\* the caller asks is_result_empty about the dictionary it holds: the result
\* of the call once it has returned, the empty dictionary before any run
Asked(analyzer) ==
    /\ an.pc \in {"start", "returned"}
    /\ an.analyzer = analyzer
    /\ LET results == IF an.pc = "returned" THEN an.result.value ELSE EmptyDict
           IsEmpty(r) == IF analyzer = "fracture"
                         THEN FractureAnalyzer_is_result_empty(r)
                         ELSE PoreAnalyzer_is_result_empty(r)
       IN  an' = [an EXCEPT !.pc = "asked", !.trace = Append(@, "is_result_empty"),
                            !.empty = [results |-> results, value |-> IsEmpty(results)]]
    /\ UNCHANGED <<uc, th, ct, mg, dg>>

FractureIsResultEmpty ==
    Asked("fracture")

\* PoreAnalyzer, lines 37-38 and 75-76
PorePreprocess ==
    /\ At("pore", {"run_analysis", "run_staged_analysis"}, "start")
    /\ LET gray == convert_to_grayscale(an.image)
       IN  Advance("preprocess", "preprocessed",
                   [gray |-> gray, blurred |-> apply_gaussian_blur(gray, <<7, 7>>)])

\* lines 41 and 79
PoreThreshold ==
    /\ At("pore", {"run_analysis", "run_staged_analysis"}, "preprocessed")
    /\ LET binary == PoreAnalyzer_apply_threshold(an.locals.blurred, Section("threshold"))
       IN  IF binary.raised # "none" THEN Fail("threshold", binary)
           ELSE Advance("threshold", "thresholded", [binary |-> binary.value])

\* lines 81-87
PoreStagedReturnBinary ==
    /\ At("pore", {"run_staged_analysis"}, "thresholded")
    /\ an.stage_key = "binary"
    /\ Finish("return", [previews |-> [gray |-> an.locals.gray, binary |-> an.locals.binary]])

\* lines 90-99: the preview's own opening, then the return
PoreStagedMorphology ==
    /\ At("pore", {"run_staged_analysis"}, "thresholded")
    /\ an.stage_key # "binary"
    /\ LET morph_params == Section("morphology")
           ksize == Get(morph_params, "opening_ksize", RInt(3))
           iterations == Get(morph_params, "opening_iterations", RInt(2))
           opening == LibCall(an.locals.binary,
                              <<"morphologyEx", "MORPH_OPEN", <<"ones", ksize, ksize>>,
                                iterations>>)
       IN  an' = [an EXCEPT !.pc = "returned", !.trace = @ \o <<"morphology", "return">>,
                            !.result = Return([previews |->
                                [gray |-> an.locals.gray, binary |-> an.locals.binary,
                                 morph |-> opening]])]
    /\ UNCHANGED <<uc, th, ct, mg, dg>>

\* lines 44-49: cv2.cvtColor(image, COLOR_BGR2RGB) rejects a single-channel image
PoreWatershed ==
    /\ At("pore", {"run_analysis"}, "thresholded")
    /\ LET prepared == PoreAnalyzer_prepare_for_watershed(an.locals.binary, Section("morphology"))
       IN  IF an.image.channels = 1 THEN Fail("watershed", Raise("cv2.error"))
           ELSE Advance("watershed", "segmented",
                        [markers |-> LibCall(prepared, <<"watershed", "COLOR_BGR2RGB">>)])

\* lines 52-54; an.scene is the reading of the label image markers
PoreFeatures ==
    /\ At("pore", {"run_analysis"}, "segmented")
    /\ Advance("features", "filtered",
               [pores |-> PoreAnalyzer_analyze_and_filter_pores(an.scene, Section("filtering"))])

\* lines 57-70
PoreFinish ==
    /\ At("pore", {"run_analysis"}, "filtered")
    /\ Finish("return",
              [visualization |-> PoreAnalyzer_draw_analysis_results(
                                     LibCall(an.image, <<"copy">>), an.locals.pores),
               measurements |-> PoreAnalyzer_calculate_measurements(
                                    an.locals.pores, an.shape[1] * an.shape[2]),
               previews |-> [gray |-> an.locals.gray, binary |-> an.locals.binary]])

PorePostProcess ==
    /\ At("pore", {"run_analysis"}, "returned")
    /\ PostProcessed(PoreAnalyzer_post_process_measurements(an.result.value, an.dpi))

PoreIsResultEmpty ==
    Asked("pore")

AnNext ==
    \/ FracturePreprocess
    \/ FractureThreshold
    \/ FractureStagedReturnBinary
    \/ FractureMorphology
    \/ FractureStagedReturnMorph
    \/ FractureFeatures
    \/ FractureMerge
    \/ FractureFinish
    \/ FracturePostProcess
    \/ PorePreprocess
    \/ PoreThreshold
    \/ PoreStagedReturnBinary
    \/ PoreStagedMorphology
    \/ PoreWatershed
    \/ PoreFeatures
    \/ PoreFinish
    \/ PorePostProcess
    \/ FractureIsResultEmpty
    \/ PoreIsResultEmpty

SpecAnalysis == AnInit /\ [][AnNext]_vars


(***************************************************************************)
(* image_processor.py: contour analysis, merging and drawing               *)
(***************************************************************************)
\* lines 375-446; contours is what cv2.findContours reports on the inverted
\* binary image
ImageProcessor_analyze_fractures(contours, min_aspect_ratio, min_length_pixels) ==
    LET Accepted(c, rect) ==
            /\ ~(RectW(rect) = 0 \/ RectH(rect) = 0)
            /\ RLe(min_aspect_ratio, RectAspect(rect))
            /\ ~RLt(RInt(skeleton_pixels(c)), min_length_pixels)
        Valid(c) == Len(c) >= 5 /\ Accepted(c, minAreaRect(c))
        Props(contour, rect) ==
            [contour |-> contour,
             area_pixels |-> contourArea(contour),
             length_pixels |-> RInt(skeleton_pixels(contour)),
             angle |-> AngleDeg(rect.e),
             centroid_pixels |->
                 <<R((rect.umin + rect.umax) * rect.e[1] - (rect.vmin + rect.vmax) * rect.e[2],
                     2 * rect.n),
                   R((rect.umin + rect.umax) * rect.e[2] + (rect.vmin + rect.vmax) * rect.e[1],
                     2 * rect.n)>>]
        kept == SelectSeq(contours, Valid)
    IN  [i \in DOMAIN kept |-> Props(kept[i], minAreaRect(kept[i]))]

\* lines 448-467: a placeholder that returns its argument
ImageProcessor_merge_fractures(fractures, max_distance, max_angle_diff) == fractures

\* lines 469-493
ImageProcessor_draw_analysis_results(original_image, fractures) ==
    LET result_image == LibCall(original_image, <<"copy">>)
        colour == IF result_image.channels = 1
                  THEN [LibCall(result_image, <<"cvtColor", "COLOR_GRAY2BGR">>)
                           EXCEPT !.channels = 3]
                  ELSE result_image
    IN  LibCall(colour, <<"drawContours",
                          [i \in DOMAIN fractures |-> fractures[i].contour],
                          <<0, 0, 255>>, 2>>)

(***************************************************************************)
(* controller.py.  x is the Controller (current_image, current_dpi,        *)
(* analysis_parameters = analysis_params['analysis_parameters'],           *)
(* analysis_results) together with the record of its last handler: the     *)
(* ImageProcessor methods it called, the signals it emitted and the        *)
(* exception that left it.  A parameter path is the list of its keys,      *)
(* param_path.split('.').                                                  *)
(***************************************************************************)
\* lines 48-77: the parameters used when config/default_params.json is absent
Controller_default_parameters ==
    [threshold |-> [method |-> "adaptive_gaussian", global_value |-> RInt(127),
                    adaptive_block_size |-> RInt(11), adaptive_c_value |-> RInt(2),
                    niblack_window_size |-> RInt(25), niblack_k |-> R(-2, 10),
                    sauvola_window_size |-> RInt(25), sauvola_k |-> R(2, 10),
                    sauvola_r |-> RInt(128)],
     morphology |-> [open_kernel_size |-> RInt(3), open_iterations |-> RInt(1),
                     close_kernel_size |-> RInt(3), close_iterations |-> RInt(1)],
     filtering |-> [min_length_mm |-> RInt(5), min_aspect_ratio |-> RInt(3)],
     merging |-> [enabled |-> FALSE, merge_distance_mm |-> RInt(2)]]

\* the mutation of the emissions in which an error is printed and not emitted
Emitted_unless_error(x, signal) ==
    IF signal[1] = "error_occurred" THEN x
    ELSE [x EXCEPT !.signals = Append(@, signal),
                   !.trace = Append(@, <<"emit", signal[1]>>)]

\* signal.emit(...); trace keeps the saves and the emissions of the running
\* handler in the order they happen
Emitted(x, signal) ==
    [x EXCEPT !.signals = Append(@, signal),
              !.trace = Append(@, IF signal[1] = "preview_stage_updated"
                                  THEN <<"emit", signal[1], signal[2]>>
                                  ELSE <<"emit", signal[1]>>)]

\* self.image_processor.<method>(..., **kwargs)
Invoked(x, method, kwargs) ==
    [x EXCEPT !.calls = Append(@, [method |-> method, kwargs |-> kwargs])]

\* the mutation of save_analysis_result that stores nothing
save_analysis_result_dropped(x, stage, result_data) == x

\* lines 395-397
save_analysis_result(x, stage, result_data) ==
    [x EXCEPT !.analysis_results = Put(@, stage, result_data),
              !.trace = Append(@, <<"save", stage>>)]

\* lines 171-186 and 281-294: the method and the structured parameters handed
\* to apply_threshold, or the KeyError of a missing entry
Controller_threshold_arguments(params) ==
    LET Taken(keys, structured) ==
            IF keys \subseteq DOMAIN params
            THEN Return([method |-> params.method, params |-> structured])
            ELSE Raise("KeyError")
    IN  IF "method" \notin DOMAIN params THEN Raise("KeyError")
        ELSE IF params.method = "global" THEN
            Taken({"global_value"}, [value |-> params.global_value])
        ELSE IF params.method = "adaptive_gaussian" THEN
            Taken({"adaptive_block_size", "adaptive_c_value"},
                  [block_size |-> params.adaptive_block_size, c |-> params.adaptive_c_value])
        ELSE IF params.method = "niblack" THEN
            Taken({"niblack_window_size", "niblack_k"},
                  [window_size |-> params.niblack_window_size, k |-> params.niblack_k])
        ELSE IF params.method = "sauvola" THEN
            Taken({"sauvola_window_size", "sauvola_k", "sauvola_r"},
                  [window_size |-> params.sauvola_window_size, k |-> params.sauvola_k,
                   r |-> params.sauvola_r])
        ELSE Return([method |-> params.method, params |-> EmptyDict])

\* lines 204-221
Controller_get_formatted_morphology_params(analysis_parameters) ==
    LET morph_p == Get(analysis_parameters, "morphology", EmptyDict)
    IN  [opening |-> [kernel_size |-> Get(morph_p, "open_kernel_size", Zero),
                      kernel_shape |-> Get(morph_p, "open_kernel_shape", "rect"),
                      iterations |-> Get(morph_p, "open_iterations", RInt(1)),
                      min_area |-> Get(morph_p, "min_area", RInt(100))],
         closing |-> [kernel_size |-> Get(morph_p, "close_kernel_size", Zero),
                      kernel_shape |-> Get(morph_p, "close_kernel_shape", "rect"),
                      iterations |-> Get(morph_p, "close_iterations", RInt(1))]]

\* lines 223-249
Controller_on_morphology_params_changed(x) ==
    LET threshold_result == Get(x.analysis_results, "THRESHOLD", None)
        Applied(processing_params, result) ==
            Emitted(save_analysis_result(
                        Invoked(x, "apply_morphological_postprocessing",
                                [opening_strategy |-> "standard",
                                 closing_strategy |-> "standard",
                                 params |-> processing_params]),
                        "MORPHOLOGY", result),
                    <<"preview_stage_updated", "MORPHOLOGY", result>>)
        Apply(binary_image, processing_params) ==
            Applied(processing_params,
                    ImageProcessor_apply_morphological_postprocessing(
                        binary_image, "standard", "standard", processing_params))
    IN  IF threshold_result = None THEN x
        ELSE Apply(threshold_result.binary,
                   Controller_get_formatted_morphology_params(x.analysis_parameters))

\* lines 162-202
Controller_on_threshold_params_changed(x) ==
    LET Failed(y, e) == Emitted(y, <<"error_occurred", "threshold", e>>)
        Applied(y, result) ==
            IF result.raised # "none" THEN Failed(y, result.raised)
            ELSE Controller_on_morphology_params_changed(
                     Emitted(save_analysis_result(y, "THRESHOLD", result.value),
                             <<"preview_stage_updated", "THRESHOLD", result.value>>))
        Apply(arguments) ==
            IF arguments.raised # "none" THEN Failed(x, arguments.raised)
            ELSE Applied(Invoked(x, "apply_threshold", arguments.value),
                         ImageProcessor_apply_threshold(x.current_image,
                                                        arguments.value.method,
                                                        arguments.value.params))
    IN  IF x.current_image = None THEN x
        ELSE IF "threshold" \notin DOMAIN x.analysis_parameters THEN Failed(x, "KeyError")
        ELSE Apply(Controller_threshold_arguments(x.analysis_parameters.threshold))

Controller_update_parameter_at_root(x, keys, value) ==
    LET Updated(out) ==
            IF keys[1] = "threshold" THEN Controller_on_threshold_params_changed(out)
            ELSE IF keys[1] = "morphology" THEN Controller_on_morphology_params_changed(out)
            ELSE out
    IN  Updated([x EXCEPT !.analysis_parameters = Put(@, keys[Len(keys)], value)])

\* lines 100-119; a KeyError of the walk leaves the handler
Controller_update_parameter(x, keys, value) ==
    LET RECURSIVE Assigned(_, _)
        \* d with the entry at path ks set to value
        Assigned(d, ks) ==
            IF Len(ks) = 1 THEN Return(Put(d, ks[1], value))
            ELSE IF ks[1] \notin DOMAIN d THEN Raise("KeyError")
            ELSE LET below == Assigned(d[ks[1]], Tail(ks))
                 IN  IF below.raised # "none" THEN below
                     ELSE Return(Put(d, ks[1], below.value))
        Updated(out) ==
            IF out.raised # "none" THEN [x EXCEPT !.raised = out.raised]
            ELSE IF keys[1] = "threshold" THEN
                Controller_on_threshold_params_changed(
                    [x EXCEPT !.analysis_parameters = out.value])
            ELSE IF keys[1] = "morphology" THEN
                Controller_on_morphology_params_changed(
                    [x EXCEPT !.analysis_parameters = out.value])
            ELSE [x EXCEPT !.analysis_parameters = out.value]
    IN  Updated(Assigned(x.analysis_parameters, keys))

\* the mutation of load_image_from_file that forgets the current image before
\* it tries to read the new one
Controller_load_image_from_file_resetting(x, file_path, loaded) ==
    IF loaded.raised # "none"
    THEN [x EXCEPT !.current_image = None, !.current_dpi = None,
                   !.returned = <<FALSE, file_path, loaded.raised>>]
    ELSE LET image == loaded.value[1]
             dpi == loaded.value[2]
             original == [image |-> image, path |-> file_path, dpi |-> dpi]
             gray == [image |-> convert_to_grayscale(image), method |-> "standard"]
         IN  Controller_on_threshold_params_changed(
                 Emitted(Emitted(
                     save_analysis_result(save_analysis_result(
                         [x EXCEPT !.current_image = image,
                                   !.current_dpi = dpi,
                                   !.current_image_path = file_path,
                                   !.returned = <<TRUE, file_path, dpi>>,
                                   !.analysis_results = EmptyDict,
                                   !.detected_in = None,
                                   !.calls = <<[method |-> "load_image", kwargs |-> EmptyDict],
                                               [method |-> "convert_to_grayscale",
                                                kwargs |-> EmptyDict]>>],
                         "ORIGINAL", original), "GRAYSCALE", gray),
                     <<"preview_stage_updated", "ORIGINAL", original>>),
                     <<"preview_stage_updated", "GRAYSCALE", gray>>))

\* lines 121-160; loaded is what ImageProcessor.load_image returns, the pair
\* (image, dpi), or the exception it raises: the method then returns
\* (False, message) and changes nothing.  returned is what the method
\* returns: the flag, and the file and the exception or DPI its message names.
Controller_load_image_from_file(x, file_path, loaded) ==
    IF loaded.raised # "none"
    THEN [x EXCEPT !.returned = <<FALSE, file_path, loaded.raised>>]
    ELSE LET image == loaded.value[1]
             dpi == loaded.value[2]
             original == [image |-> image, path |-> file_path, dpi |-> dpi]
             gray == [image |-> convert_to_grayscale(image), method |-> "standard"]
         IN  Controller_on_threshold_params_changed(
                 Emitted(Emitted(
                     save_analysis_result(save_analysis_result(
                         [x EXCEPT !.current_image = image,
                                   !.current_dpi = dpi,
                                   !.current_image_path = file_path,
                                   !.returned = <<TRUE, file_path, dpi>>,
                                   !.analysis_results = EmptyDict,
                                   !.detected_in = None,
                                   !.calls = <<[method |-> "load_image", kwargs |-> EmptyDict],
                                               [method |-> "convert_to_grayscale",
                                                kwargs |-> EmptyDict]>>],
                         "ORIGINAL", original), "GRAYSCALE", gray),
                     <<"preview_stage_updated", "ORIGINAL", original>>),
                     <<"preview_stage_updated", "GRAYSCALE", gray>>))

\* lines 79-89; loaded is what json.load hands back for the file, reduced to
\* its analysis_parameters entry (the empty dictionary when the file has
\* none), or the exception of open or json.load
Controller_load_parameters(x, loaded) ==
    IF loaded.raised # "none"
    THEN Emitted(x, <<"error_occurred", "parameters", loaded.raised>>)
    ELSE Controller_on_threshold_params_changed(
             Emitted([x EXCEPT !.analysis_parameters = loaded.value],
                     <<"parameters_updated", loaded.value>>))

\* lines 264-393; contours is what cv2.findContours reports on the inverted
\* processed binary image.  Every exception raised after the image check is
\* caught and reported through error_occurred.
Controller_run_fracture_analysis(x, contours) ==
    LET params == x.analysis_parameters
        Failed(y, e) == Emitted(y, <<"error_occurred", "analysis", e>>)
        \* step 6
        Completed(y, measurement_result) ==
            Emitted(save_analysis_result(y, "MEASUREMENT", measurement_result),
                    <<"analysis_complete", measurement_result>>)
        Measured(y, dpi, valid_fractures) ==
            Completed(y,
                [fracture_count |-> Len(valid_fractures),
                 total_area_mm2 |->
                     convert_area(SumOf(valid_fractures, "area_pixels"), dpi).value,
                 total_length_mm |->
                     pixels_to_mm(SumOf(valid_fractures, "length_pixels"), dpi).value,
                 detailed_fractures |->
                     [i \in DOMAIN valid_fractures |->
                         [id |-> i,
                          length_mm |-> pixels_to_mm(valid_fractures[i].length_pixels, dpi).value,
                          area_mm2 |-> convert_area(valid_fractures[i].area_pixels, dpi).value,
                          angle_degrees |-> valid_fractures[i].angle]]])
        \* step 5
        Detected(y, dpi, valid_fractures, detection_result) ==
            Measured(Emitted(save_analysis_result(
                                 [y EXCEPT !.detected_in = Get(y.analysis_results, "MORPHOLOGY", None)],
                                 "DETECTION", detection_result),
                             <<"preview_stage_updated", "DETECTION", detection_result>>),
                     dpi, valid_fractures)
        Drawn(y, dpi, valid_fractures) ==
            Detected(Invoked(y, "draw_analysis_results", EmptyDict), dpi, valid_fractures,
                     [image |-> ImageProcessor_draw_analysis_results(x.current_image,
                                                                     valid_fractures),
                      fractures |-> valid_fractures])
        \* step 4
        MergedWithin(y, dpi, valid_fractures, merge_distance_pixels) ==
            Drawn(Invoked(y, "merge_fractures",
                          [max_distance |-> merge_distance_pixels,
                           max_angle_diff |-> RInt(15)]),
                  dpi,
                  ImageProcessor_merge_fractures(valid_fractures, merge_distance_pixels,
                                                 RInt(15)))
        Merged(y, dpi, valid_fractures, merging_params) ==
            IF Get(merging_params, "enabled", FALSE)
            THEN MergedWithin(y, dpi, valid_fractures,
                     mm_to_pixels(Get(merging_params, "merge_distance_mm", Zero), dpi).value)
            ELSE Drawn(y, dpi, valid_fractures)
        \* step 3
        Filtered(y, dpi, min_aspect_ratio, min_length_pixels) ==
            Merged(Invoked(y, "analyze_fractures",
                           [min_aspect_ratio |-> min_aspect_ratio,
                            min_length_pixels |-> min_length_pixels]),
                   dpi,
                   ImageProcessor_analyze_fractures(contours, min_aspect_ratio,
                                                    min_length_pixels),
                   Get(params, "merging", EmptyDict))
        Analyzed(y, dpi, filtering_params) ==
            IF Get(filtering_params, "min_length_mm", Zero) = None
            THEN Failed(y, "TypeError")                       \* None * dpi
            ELSE
            Filtered(y, dpi, Get(filtering_params, "min_aspect_ratio", RInt(3)),
                     mm_to_pixels(Get(filtering_params, "min_length_mm", Zero), dpi).value)
        \* step 2
        Processed(y, dpi, morphology_params, morphology_result) ==
            Analyzed(Emitted(save_analysis_result(
                                 Invoked(y, "apply_morphological_postprocessing",
                                         [opening_strategy |-> "standard",
                                          closing_strategy |-> "standard",
                                          params |-> morphology_params]),
                                 "MORPHOLOGY", morphology_result),
                             <<"preview_stage_updated", "MORPHOLOGY", morphology_result>>),
                     dpi, Get(params, "filtering", EmptyDict))
        Morphed(y, dpi, binary_image, morphology_params) ==
            Processed(y, dpi, morphology_params,
                      ImageProcessor_apply_morphological_postprocessing(
                          binary_image, "standard", "standard", morphology_params))
        \* step 1
        Thresholded(y, dpi, threshold_result) ==
            IF threshold_result.raised # "none" THEN Failed(y, threshold_result.raised)
            ELSE Morphed(Emitted(save_analysis_result(y, "THRESHOLD", threshold_result.value),
                                 <<"preview_stage_updated", "THRESHOLD",
                                   threshold_result.value>>),
                         dpi, threshold_result.value.binary,
                         Controller_get_formatted_morphology_params(params))
        Started(dpi, arguments) ==
            IF arguments.raised # "none" THEN Failed(x, arguments.raised)
            ELSE Thresholded(Invoked(x, "apply_threshold", arguments.value), dpi,
                             ImageProcessor_apply_threshold(x.current_image,
                                                            arguments.value.method,
                                                            arguments.value.params))
    IN  IF x.current_image = None THEN Emitted(x, <<"error_occurred", "no image">>)
        ELSE IF x.current_dpi = None THEN Failed(x, "ValueError")
        ELSE IF RLe(x.current_dpi[1], Zero) THEN Failed(x, "ValueError")
        ELSE IF "threshold" \notin DOMAIN params THEN Failed(x, "KeyError")
        ELSE Started(x.current_dpi[1], Controller_threshold_arguments(params.threshold))

(***************************************************************************)
(* Specification SpecController: a Controller built without a default      *)
(* parameter file, driven by image loads, parameter updates and analysis   *)
(* runs                                                                    *)
(***************************************************************************)
\* the files a load can be asked for and what ImageProcessor.load_image does
\* with each (image_processor.py, lines 36-85): the file does not exist, its
\* extension is not supported, cv2.imread cannot decode it, or it holds a
\* 3-channel image without DPI or with a positive DPI pair
Loads ==
    {[file_path |-> "missing.png", loaded |-> Raise("FileNotFoundError")],
     [file_path |-> "core.tif", loaded |-> Raise("ValueError")],
     [file_path |-> "corrupt.png", loaded |-> Raise("ValueError")],
     [file_path |-> "plain.png", loaded |-> Return(<<InputImage(3), None>>)],
     [file_path |-> "scan.png",
      loaded |-> Return(<<InputImage(3), <<R(254, 10), R(254, 10)>>>>)]}

\* the parameter edits of the dialogs and of tests/test_controller.py, and one
\* path into a section that does not exist
ParameterUpdates ==
    {<<<<"filtering", "min_aspect_ratio">>, RInt(20)>>,
     <<<<"merging", "enabled">>, TRUE>>,
     <<<<"merging", "enabled">>, FALSE>>,
     <<<<"merging", "merge_distance_mm">>, RInt(5)>>,
     <<<<"merging", "max_angle_diff">>, RInt(30)>>,
     <<<<"threshold", "method">>, "otsu">>,
     <<<<"threshold", "method">>, "bogus">>,
     <<<<"threshold", "block_size">>, RInt(25)>>,
     <<<<"morphology", "open_kernel_size">>, Zero>>,
     <<<<"display", "zoom">>, RInt(2)>>}

\* what a parameter file can hold: a complete parameter set, one whose
\* filtering.min_length_mm is null, a file without parameters, or no file
ParameterFiles ==
    {Raise("FileNotFoundError"),
     Return([Controller_default_parameters EXCEPT !.threshold.method = "otsu"]),
     Return([Controller_default_parameters EXCEPT !.filtering.min_length_mm = None]),
     Return(EmptyDict)}

\* the contours an analysis run may find
ControllerScenes == {s \in FractureScenes : Len(s) <= 1}

\* lines 24-38: no image, no DPI, the built-in parameters; the missing
\* parameter file has been reported.  detected_in is the morphology_result
\* (line 315) from which the stored DETECTION result was computed.
CtInit ==
    /\ dg = None
    /\ uc = None
    /\ th = None
    /\ an = None
    /\ mg = None
    /\ ct = [current_image |-> None, current_dpi |-> None, current_image_path |-> NoneStr,
             returned |-> None,
             analysis_parameters |-> Controller_default_parameters,
             analysis_results |-> EmptyDict,
             handler |-> "__init__", args |-> <<>>, raised |-> "none", calls |-> <<>>,
             signals |-> <<<<"error_occurred", "default parameters", "FileNotFoundError">>>>,
             trace |-> <<<<"emit", "error_occurred">>>>,
             detected_in |-> None]

\* a handler starts with an empty record of calls and signals
Begin(handler, args) ==
    [ct EXCEPT !.handler = handler, !.args = args, !.raised = "none",
               !.calls = <<>>, !.signals = <<>>, !.trace = <<>>, !.returned = None]

LoadImageFromFile ==
    /\ \E load \in Loads :
           ct' = Controller_load_image_from_file(Begin("load_image_from_file", <<>>),
                                                 load.file_path, load.loaded)
    /\ UNCHANGED <<uc, th, an, mg, dg>>

LoadParameters ==
    /\ \E loaded \in ParameterFiles :
           ct' = Controller_load_parameters(Begin("load_parameters", <<>>), loaded)
    /\ UNCHANGED <<uc, th, an, mg, dg>>

UpdateParameter ==
    /\ \E u \in ParameterUpdates :
           ct' = Controller_update_parameter(Begin("update_parameter", u), u[1], u[2])
    /\ UNCHANGED <<uc, th, an, mg, dg>>

RunFractureAnalysis ==
    /\ \E contours \in ControllerScenes :
           ct' = Controller_run_fracture_analysis(Begin("run_fracture_analysis", <<>>),
                                                  contours)
    /\ UNCHANGED <<uc, th, an, mg, dg>>

CtNext ==
    \/ LoadImageFromFile
    \/ LoadParameters
    \/ UpdateParameter
    \/ RunFractureAnalysis

SpecController == CtInit /\ [][CtNext]_vars

(***************************************************************************)
(* Specification SpecMerge: the while loop of _merge_fractures, turn by    *)
(* turn, from the point where the guards have passed and the work queue    *)
(* has been filled (fracture_analyzer.py, lines 224-225)                   *)
(***************************************************************************)
\* the lists step 4 can hand over: the fractures found in a scene, in every
\* order, when there are at least two
MergeInputs ==
    LET Found(s) == FractureAnalyzer_analyze_and_filter_fractures(
                        s, [min_aspect_ratio |-> RInt(1)])
        Orders(f) == {[i \in DOMAIN f |-> f[p[i]]] : p \in Permutations(DOMAIN f)}
    IN  UNION {Orders(Found(s)) : s \in {t \in FractureScenes : Len(Found(t)) >= 2}}

\* fractures is the argument, which the loop leaves alone (line 225 works on
\* a copy); fresh is the set of indices of the accepted entries that a merge
\* of this pass produced; members[i] is the set of positions in fractures of
\* the popped fractures that went into accepted entry i; turn describes the
\* last turn of the loop
MgInit ==
    /\ dg = None
    /\ uc = None
    /\ th = None
    /\ an = None
    /\ ct = None
    /\ mg \in {[fractures |-> f,
                fractures_to_merge |-> f,
                merged_fractures |-> <<>>,
                max_angle_diff |-> a,
                merge_dist_pixels |-> mm_to_pixels(mm, RInt(254)).value,
                members |-> <<>>,
                fresh |-> {},
                turn |-> None,
                pc |-> "loop"] :
                    f \in MergeInputs,
                    a \in {Zero, RInt(15), RInt(45)},
                    mm \in {R(2, 5), R(1, 2), RInt(2)}}

\* lines 227-279: base_fracture is popped and compared with the accepted
\* entries in order
MergePop ==
    /\ mg.pc = "loop"
    /\ mg.fractures_to_merge # <<>>
    /\ LET base_fracture == Head(mg.fractures_to_merge)
           popped == Len(mg.fractures) - Len(mg.fractures_to_merge) + 1
           Turned(done) ==
               [mg EXCEPT !.fractures_to_merge = Tail(@),
                          !.merged_fractures = done.merged_fractures,
                          !.members = IF done.index = 0 THEN Append(@, {popped})
                                      ELSE [@ EXCEPT ![done.index] = @ \cup {popped}],
                          !.fresh = IF done.index = 0 THEN @ ELSE @ \cup {done.index},
                          !.turn = [base_fracture |-> base_fracture,
                                    accepted |-> mg.merged_fractures,
                                    fresh |-> mg.fresh,
                                    compared |-> done.compared,
                                    index |-> done.index]]
       IN  mg' = Turned(MergeTurn(base_fracture, mg.merged_fractures,
                                  mg.max_angle_diff, mg.merge_dist_pixels))
    /\ UNCHANGED <<uc, th, an, ct, dg>>

\* line 281
MergeReturn ==
    /\ mg.pc = "loop"
    /\ mg.fractures_to_merge = <<>>
    /\ mg' = [mg EXCEPT !.pc = "returned"]
    /\ UNCHANGED <<uc, th, an, ct, dg>>

MgNext ==
    \/ MergePop
    \/ MergeReturn

SpecMerge == MgInit /\ [][MgNext]_vars

(***************************************************************************)
(* C2: for every DPI that is absent or not positive (None, zero, negative) *)
(* an analysis completes without raising on account of the DPI, and        *)
(* post_process_measurements returns without raising a result that has     *)
(* every pixel-unit field and no millimetre-unit field.                    *)
(***************************************************************************)
C2_InvalidDpiNeverAborts ==
    (an.fn = "run_analysis" /\ (an.dpi = None \/ RLe(an.dpi, Zero))) =>
        /\ an.pc = "raised" => an.trace[Len(an.trace)] # "merge"
        /\ an.pc = "post" =>
              /\ an.post.raised = "none"
              /\ LET m == an.post.value.measurements
                 IN  /\ {"count", "total_area_pixels", "details"} \subseteq DOMAIN m
                     /\ an.analyzer = "fracture" => "total_length_pixels" \in DOMAIN m
                     /\ DOMAIN m \cap {"total_area_mm2", "total_length_mm"} = {}
                     /\ \A i \in DOMAIN m.details :
                           /\ "area_pixels" \in DOMAIN m.details[i]
                           /\ an.analyzer = "fracture" => "length_pixels" \in DOMAIN m.details[i]
                           /\ DOMAIN m.details[i] \cap {"area_mm2", "length_mm"} = {}

(***************************************************************************)
(* C4: whatever the fractures, the merge parameters and the DPI, the list  *)
(* _merge_fractures returns has at most as many entries as its input.      *)
(***************************************************************************)
C4_MergeNeverIncreasesCount ==
    (an.analyzer = "fracture" /\ "merged_fractures" \in DOMAIN an.locals) =>
        Len(an.locals.merged_fractures) <= Len(an.locals.fractures)

\* three fractures went in and merging joined some of them
C4_Witness ==
    /\ an.analyzer = "fracture"
    /\ "merged_fractures" \in DOMAIN an.locals
    /\ Len(an.locals.fractures) = 3
    /\ Len(an.locals.merged_fractures) < 3

(***************************************************************************)
(* C5: every fracture in the final result of a fracture analysis, merged   *)
(* or not, has max(w, h) / min(w, h) of its minimum-area rectangle at      *)
(* least the configured min_aspect_ratio.                                  *)
(***************************************************************************)
C5_AspectRatioInvariant ==
    (an.analyzer = "fracture" /\ an.fn = "run_analysis" /\ an.pc \in {"returned", "post"}) =>
        LET details == an.result.value.measurements.details
        IN  \A i \in DOMAIN details :
                RLe(Get(Section("filtering"), "min_aspect_ratio", RInt(5)),
                    RectAspect(minAreaRect(details[i].contour)))

(***************************************************************************)
(* C6: every pore _analyze_and_filter_pores returns has                    *)
(* 0 < solidity <= 1 and solidity >= min_solidity, for min_solidity in     *)
(* [0, 1] and min_area_pixels in [0, 500].                                 *)
(***************************************************************************)
C6_SolidityInvariant ==
    (an.analyzer = "pore" /\ "pores" \in DOMAIN an.locals) =>
        \A i \in DOMAIN an.locals.pores :
            LET solidity == an.locals.pores[i].solidity
            IN  /\ RLt(Zero, solidity)
                /\ RLe(solidity, RInt(1))
                /\ RLe(Get(Section("filtering"), "min_solidity", R(85, 100)), solidity)

(***************************************************************************)
(* C7: when filtering.min_length_mm is configured and the DPI is valid,    *)
(* every fracture a fracture analysis reports has                          *)
(* length_pixels >= mm_to_pixels(min_length_mm, dpi).                      *)
(***************************************************************************)
C7_MinLengthEnforced ==
    (/\ an.analyzer = "fracture" /\ an.fn = "run_analysis" /\ an.pc \in {"returned", "post"}
     /\ "min_length_mm" \in DOMAIN Section("filtering")
     /\ an.dpi # None /\ RLt(Zero, an.dpi)) =>
        LET details == an.result.value.measurements.details
        IN  \A i \in DOMAIN details :
                RLe(mm_to_pixels(Section("filtering").min_length_mm, an.dpi).value,
                    details[i].length_pixels)

(***************************************************************************)
(* C8: every result run_analysis returns, in fracture mode and in pore     *)
(* mode, contains visualization, measurements (with count and details)     *)
(* and previews, and the previews contain gray, binary and morph.          *)
(***************************************************************************)
C8_ResultEnvelope ==
    (an.fn = "run_analysis" /\ an.pc \in {"returned", "post"}) =>
        /\ {"visualization", "measurements", "previews"} \subseteq DOMAIN an.result.value
        /\ {"count", "details"} \subseteq DOMAIN an.result.value.measurements
        /\ {"gray", "binary", "morph"} \subseteq DOMAIN an.result.value.previews

(***************************************************************************)
(* C9: for a valid DPI post_process_measurements returns measurements in   *)
(* which every pixel-unit field of the input is present with its original  *)
(* value next to its millimetre field; the details keep their number and   *)
(* order, and the dictionary passed in is not modified.                    *)
(***************************************************************************)
C9_PostProcessKeepsPixelFields ==
    (an.pc = "post" /\ an.dpi # None /\ RLt(Zero, an.dpi)) =>
        LET before == an.result.value.measurements
            after == an.post.value.measurements
            Pairs == {<<"total_area_pixels", "total_area_mm2">>,
                      <<"total_length_pixels", "total_length_mm">>,
                      <<"area_pixels", "area_mm2">>, <<"length_pixels", "length_mm">>}
            Kept(b, a) == \A p \in Pairs :
                              p[1] \in DOMAIN b =>
                                  /\ p[1] \in DOMAIN a
                                  /\ a[p[1]] = b[p[1]]
                                  /\ p[2] \in DOMAIN a
        IN  /\ an.post.raised = "none"
            /\ Kept(before, after)
            /\ after.total_area_mm2 = convert_area(before.total_area_pixels, an.dpi).value
            /\ Len(after.details) = Len(before.details)
            /\ \A i \in DOMAIN before.details :
                  /\ Kept(before.details[i], after.details[i])
                  /\ after.details[i].contour = before.details[i].contour
            /\ an.post.results = an.result.value

\* two fractures were measured and converted at 254 DPI
C9_Witness ==
    /\ an.pc = "post"
    /\ an.analyzer = "fracture"
    /\ an.dpi = RInt(254)
    /\ an.post.raised = "none"
    /\ Len(an.post.value.measurements.details) = 2
    /\ "length_mm" \in DOMAIN an.post.value.measurements.details[2]

(***************************************************************************)
(* C10: run_staged_analysis returns a result with the previews key only    *)
(* and never runs feature extraction, merging or watershed; for stage key  *)
(* 'binary' the previews are exactly gray and binary and morphology is not *)
(* executed, for stage key 'morph' they are exactly gray, binary, morph.   *)
(***************************************************************************)
C10_StagedReturnsOnlyPreviews ==
    an.fn = "run_staged_analysis" =>
        /\ \A i \in DOMAIN an.trace : an.trace[i] \notin {"features", "merge", "watershed"}
        /\ an.stage_key = "binary" => \A i \in DOMAIN an.trace : an.trace[i] # "morphology"
        /\ an.pc = "returned" =>
              /\ DOMAIN an.result.value = {"previews"}
              /\ an.stage_key = "binary" =>
                     DOMAIN an.result.value.previews = {"gray", "binary"}
              /\ an.stage_key = "morph" =>
                     DOMAIN an.result.value.previews = {"gray", "binary", "morph"}

\* a staged fracture call for stage 'binary' has returned
C10_Witness ==
    /\ an.fn = "run_staged_analysis"
    /\ an.analyzer = "fracture"
    /\ an.stage_key = "binary"
    /\ an.pc = "returned"


(***************************************************************************)
(* C11: for each morphology stage (opening, closing) on its own, when the  *)
(* stage's configured kernel size is 0 or the stage is not enabled, the    *)
(* mask that leaves the stage has the content of the mask that entered it, *)
(* whether or not the other stage runs, and the mask handed to the         *)
(* morphology step is never the buffer that comes out of it.               *)
(***************************************************************************)
C11_DisabledStagePassesThrough ==
    LET m == Section("morphology")
        Off(sub, ksize_key) ==
            \/ Get(m, ksize_key, None) = Zero
            \/ ~Get(Get(m, sub, EmptyDict), "enabled", FALSE)
        Ran(image, op) ==
            \E i \in DOMAIN image.ops :
                /\ image.ops[i][1] = "morphologyEx"
                /\ image.ops[i][2] = op
        Passed(sub, ksize_key, op) ==
            (Off(sub, ksize_key) /\ "binary_processed" \in DOMAIN an.locals) =>
                ~Ran(an.locals.binary_processed, op)
    IN  (an.analyzer = "fracture" /\ \E i \in DOMAIN an.trace : an.trace[i] = "morphology") =>
            /\ Passed("opening", "open_kernel_size", "MORPH_OPEN")
            /\ Passed("closing", "close_kernel_size", "MORPH_CLOSE")
            \* with both stages off nothing is left that could fail
            /\ (Off("opening", "open_kernel_size") /\ Off("closing", "close_kernel_size")) =>
                   ~(an.pc = "raised" /\ an.trace[Len(an.trace)] = "morphology")
            /\ "binary_processed" \in DOMAIN an.locals =>
                   an.locals.binary_processed # an.locals.binary


(***************************************************************************)
(* C12: is_result_empty answers true only for the result of a completed    *)
(* full analysis that found zero features (a dictionary that carries       *)
(* measurements whose count is 0); for a dictionary without measurements,  *)
(* such as a staged preview result or the empty dictionary of a run that   *)
(* has not happened yet, it answers false.                                 *)
(***************************************************************************)
C12_EmptyMeansZeroFeatures ==
    an.empty # None =>
        (an.empty.value <=>
            /\ "measurements" \in DOMAIN an.empty.results
            /\ an.empty.results.measurements.count = 0)


(***************************************************************************)
(* C13: no pipeline call (run_analysis or run_staged_analysis, either      *)
(* analyzer, colour or single-channel input, any threshold method) applies *)
(* an operation to the caller's image buffer, and every image placed in    *)
(* the returned result (the visualization and each preview) is a buffer    *)
(* other than the caller's input image.                                    *)
(***************************************************************************)
C13_ResultBuffersAreNew ==
    LET Images(r) ==
            (IF "visualization" \in DOMAIN r THEN {r.visualization} ELSE {})
            \cup {r.previews[k] : k \in DOMAIN r.previews}
    IN  /\ an.image.ops = <<>>
        /\ an.result # None =>
               (an.result.raised = "none" =>
                    \A buffer \in Images(an.result.value) : buffer # an.image)


(***************************************************************************)
(* C14: with an image loaded and a valid DPI, a run_fracture_analysis that *)
(* reports no error calls analyze_fractures exactly once with              *)
(* min_aspect_ratio equal to the configured filtering.min_aspect_ratio;    *)
(* when merging.enabled is true it calls merge_fractures exactly once with *)
(* max_distance equal to merging.merge_distance_mm converted to pixels and *)
(* max_angle_diff equal to the configured merging.max_angle_diff; and it   *)
(* calls draw_analysis_results exactly once, after those.                  *)
(***************************************************************************)
C14_AnalysisCallsCarryParameters ==
    LET Calls(m) == SelectSeq(ct.calls, LAMBDA c : c.method = m)
        filtering == Get(ct.analysis_parameters, "filtering", EmptyDict)
        merging == Get(ct.analysis_parameters, "merging", EmptyDict)
        Ran == /\ ct # None
               /\ ct.handler = "run_fracture_analysis"
               /\ ct.current_image # None
               /\ ct.current_dpi # None
               /\ \A i \in DOMAIN ct.signals : ct.signals[i][1] # "error_occurred"
    IN  Ran =>
            /\ Len(Calls("analyze_fractures")) = 1
            /\ "min_aspect_ratio" \in DOMAIN filtering =>
                   Calls("analyze_fractures")[1].kwargs.min_aspect_ratio
                       = filtering.min_aspect_ratio
            /\ Get(merging, "enabled", FALSE) =>
                   /\ Len(Calls("merge_fractures")) = 1
                   /\ "merge_distance_mm" \in DOMAIN merging =>
                          Calls("merge_fractures")[1].kwargs.max_distance
                              = mm_to_pixels(merging.merge_distance_mm, ct.current_dpi[1]).value
                   /\ "max_angle_diff" \in DOMAIN merging =>
                          Calls("merge_fractures")[1].kwargs.max_angle_diff
                              = merging.max_angle_diff
            /\ Len(Calls("draw_analysis_results")) = 1
            /\ ct.calls[Len(ct.calls)].method = "draw_analysis_results"


(***************************************************************************)
(* C15: an analysis run started with an image loaded and a positive DPI    *)
(* that runs to completion emits analysis_complete exactly once, and the   *)
(* emitted result dictionary contains the keys count, total_area_mm2,      *)
(* total_length_mm and details.                                            *)
(***************************************************************************)
C15_CompleteEmitsResultKeys ==
    LET Complete == SelectSeq(ct.signals, LAMBDA s : s[1] = "analysis_complete")
        Ran == /\ ct # None
               /\ ct.handler = "run_fracture_analysis"
               /\ ct.current_image # None
               /\ ct.current_dpi # None
               /\ \A i \in DOMAIN ct.signals : ct.signals[i][1] # "error_occurred"
    IN  Ran =>
            /\ Len(Complete) = 1
            /\ {"count", "total_area_mm2", "total_length_mm", "details"}
                   \subseteq DOMAIN Complete[1][2]


C17_ForegroundRatioConfigured ==
    (an.analyzer = "pore" /\ "markers" \in DOMAIN an.locals) =>
        \A i \in DOMAIN an.locals.markers.ops :
            an.locals.markers.ops[i][1] = "markers" =>
                an.locals.markers.ops[i][4][2]
                    = Get(Section("morphology"), "distance_transform_threshold_ratio", R(6, 10))


(***************************************************************************)
(* C18: in _merge_fractures each fracture popped from the work queue is    *)
(* compared with the accepted entries in acceptance order; it is merged    *)
(* into the first mergeable accepted entry only, which is replaced in      *)
(* place while every other accepted entry and the order of the list stay   *)
(* as they were; when no accepted entry is mergeable it is appended as a   *)
(* new last entry.                                                         *)
(***************************************************************************)
C18_MergeIntoFirstMatchOnly ==
    mg.turn # None =>
        LET accepted == mg.turn.accepted
            after == mg.merged_fractures
            base_fracture == mg.turn.base_fracture
            hits == {i \in DOMAIN accepted :
                        Mergeable(base_fracture, accepted[i],
                                  mg.max_angle_diff, mg.merge_dist_pixels)}
        IN  IF hits = {}
            THEN /\ mg.turn.index = 0
                 /\ mg.turn.compared = Len(accepted)
                 /\ after = Append(accepted, base_fracture)
            ELSE /\ mg.turn.index = SetMin(hits)
                 /\ mg.turn.compared = mg.turn.index
                 /\ Len(after) = Len(accepted)
                 /\ \A i \in DOMAIN accepted \ {mg.turn.index} : after[i] = accepted[i]
                 /\ after[mg.turn.index].contour
                        = merge_contours(base_fracture.contour,
                                         accepted[mg.turn.index].contour)

\* the popped fracture was mergeable with both accepted entries and went
\* into the first
C18_Witness ==
    /\ mg.turn # None
    /\ Len(mg.turn.accepted) = 2
    /\ mg.turn.index = 1
    /\ Mergeable(mg.turn.base_fracture, mg.turn.accepted[2],
                 mg.max_angle_diff, mg.merge_dist_pixels)


C20_MergeableWithinInclusiveBounds ==
    mg.turn # None =>
        LET base_fracture == mg.turn.base_fracture
            Wrapped(target) ==
                LET d == Abs(base_fracture.angle - target.angle)
                IN  IF d < 180 - d THEN d ELSE 180 - d
            MinDist2(b, t) == SetMin({Dist2(b[i], t[j]) : i \in 1 .. 2, j \in 1 .. 2})
            Near(target) ==
                RLe(RInt(MinDist2(get_contour_endpoints(base_fracture.contour),
                                  get_contour_endpoints(target.contour))),
                    RMul(mg.merge_dist_pixels, mg.merge_dist_pixels))
            Claimed(target) ==
                /\ RLe(RInt(Wrapped(target)), mg.max_angle_diff)
                /\ Near(target)
        IN  \A i \in 1 .. mg.turn.compared :
                /\ Wrapped(mg.turn.accepted[i]) >= 0
                /\ (i = mg.turn.index) <=> Claimed(mg.turn.accepted[i])


(***************************************************************************)
(* C21: after _merge_fractures returns, every input fracture has           *)
(* contributed its contour points to exactly one output entry: no input    *)
(* fracture is dropped, none is merged into two different outputs, and the *)
(* merge loop terminates after popping each input fracture exactly once.   *)
(* Every popped fracture is counted in exactly one accepted entry while    *)
(* the loop runs; at the return each output entry is the one input         *)
(* fracture it holds, or has the convex hull of the points of the input    *)
(* fractures it holds as its contour. The number of fractures popped so    *)
(* far and the length of the work queue always add up to the length of     *)
(* the input, so the loop returns after as many turns as there are inputs. *)
(***************************************************************************)
C21_EachInputInExactlyOneOutput ==
    mg # None =>
         (LET n == Len(mg.fractures)
              popped == n - Len(mg.fractures_to_merge)
              RECURSIVE Points(_, _)
              Points(held, k) ==
                  IF k > n THEN <<>>
                  ELSE (IF k \in held THEN mg.fractures[k].contour ELSE <<>>)
                       \o Points(held, k + 1)
              Range(contour) == {contour[i] : i \in DOMAIN contour}
          IN  /\ Len(mg.members) = Len(mg.merged_fractures)
              /\ popped \in 0 .. n
              /\ (mg.turn = None) <=> (popped = 0)
              /\ UNION {mg.members[j] : j \in DOMAIN mg.members} = 1 .. popped
              /\ \A j, k \in DOMAIN mg.members :
                    j # k => mg.members[j] \cap mg.members[k] = {}
              /\ mg.pc = "returned" =>
                    /\ popped = n
                    /\ \A j \in DOMAIN mg.merged_fractures :
                          IF Cardinality(mg.members[j]) = 1
                          THEN \E k \in mg.members[j] :
                                  mg.merged_fractures[j] = mg.fractures[k]
                          ELSE Range(mg.merged_fractures[j].contour)
                                  = Range(convexHull(Points(mg.members[j], 1))))

\* the loop has returned a list in which one entry holds several input
\* fractures and another entry holds one
C21_Witness ==
    /\ mg.pc = "returned"
    /\ \E j, k \in DOMAIN mg.members :
          /\ Cardinality(mg.members[j]) >= 2
          /\ Cardinality(mg.members[k]) = 1


(***************************************************************************)
(* C22: run_fracture_analysis saves and announces stage results strictly   *)
(* in the order THRESHOLD, MORPHOLOGY, DETECTION, MEASUREMENT: each        *)
(* stage's result is saved before its preview_stage_updated event is       *)
(* emitted, no later stage is saved or announced in that call once an      *)
(* earlier stage has failed, and analysis_complete is emitted only after   *)
(* all four results have been saved.  The saves and emissions of a call    *)
(* are an initial part of the full sequence below, followed by             *)
(* error_occurred and nothing else when the call failed.                   *)
(***************************************************************************)
C22_StagesSavedThenAnnouncedInOrder ==
    ct.handler = "run_fracture_analysis" =>
        LET Announced(stage) == <<"emit", "preview_stage_updated", stage>>
            full == <<<<"save", "THRESHOLD">>, Announced("THRESHOLD"),
                      <<"save", "MORPHOLOGY">>, Announced("MORPHOLOGY"),
                      <<"save", "DETECTION">>, Announced("DETECTION"),
                      <<"save", "MEASUREMENT">>, <<"emit", "analysis_complete">>>>
            failed == <<<<"emit", "error_occurred">>>>
        IN  \E n \in 0 .. Len(full) :
                \/ ct.trace = SubSeq(full, 1, n)
                \/ ct.trace = SubSeq(full, 1, n) \o failed

\* a call that failed after the THRESHOLD and MORPHOLOGY results were saved
\* and announced
C22_Witness ==
    /\ ct.handler = "run_fracture_analysis"
    /\ Len(ct.trace) = 5
    /\ ct.trace[3] = <<"save", "MORPHOLOGY">>
    /\ ct.trace[5] = <<"emit", "error_occurred">>


(***************************************************************************)
(* C23: every call to run_fracture_analysis terminates having emitted      *)
(* exactly one of analysis_complete or error_occurred, never both and      *)
(* never neither, whether or not an image is loaded and whatever the DPI   *)
(* and parameters are.                                                     *)
(***************************************************************************)
C23_ExactlyOneOutcomeSignal ==
    ct.handler = "run_fracture_analysis" =>
        Cardinality({i \in DOMAIN ct.signals :
                        ct.signals[i][1] \in {"analysis_complete", "error_occurred"}}) = 1

\* a call made while no image is loaded, after a parameter file without
\* parameters was read
C23_Witness ==
    /\ ct.handler = "run_fracture_analysis"
    /\ ct.current_image = None
    /\ ct.analysis_parameters = EmptyDict
    /\ \E i \in DOMAIN ct.signals : ct.signals[i][1] = "error_occurred"


(***************************************************************************)
(* C24: after any sequence of load_image_from_file, load_parameters,       *)
(* update_parameter and run_fracture_analysis calls, whenever a DETECTION  *)
(* or MEASUREMENT result is stored in the controller it was computed from  *)
(* the MORPHOLOGY result that is currently stored: no detection or         *)
(* measurement result outlives a later re-thresholding or morphology       *)
(* update.                                                                 *)
(***************************************************************************)
C24_DetectionFromStoredMorphology ==
    \A stage \in {"DETECTION", "MEASUREMENT"} \cap DOMAIN ct.analysis_results :
        /\ "MORPHOLOGY" \in DOMAIN ct.analysis_results
        /\ ct.analysis_results["MORPHOLOGY"] = ct.detected_in


(***************************************************************************)
(* C25: in every controller state reachable through load_image_from_file,  *)
(* load_parameters, update_parameter and run_fracture_analysis (including  *)
(* runs that fail part-way), a stored MORPHOLOGY result implies a stored   *)
(* THRESHOLD result, a stored DETECTION result implies a stored MORPHOLOGY *)
(* result, a stored MEASUREMENT result implies a stored DETECTION result,  *)
(* and any stored stage result implies a loaded current image.             *)
(***************************************************************************)
C25_StoredStagesFormAChain ==
    LET stored == DOMAIN ct.analysis_results
    IN  /\ "MORPHOLOGY" \in stored => "THRESHOLD" \in stored
        /\ "DETECTION" \in stored => "MORPHOLOGY" \in stored
        /\ "MEASUREMENT" \in stored => "DETECTION" \in stored
        /\ stored # {} => ct.current_image # None

\* an analysis run has failed part-way while the results of an earlier
\* complete run are stored, and a failed load has followed
C25_Witness ==
    /\ ct.handler = "load_image_from_file"
    /\ ct.trace = <<>>
    /\ "MEASUREMENT" \in DOMAIN ct.analysis_results
    /\ Get(ct.analysis_parameters, "filtering", EmptyDict) # EmptyDict
    /\ ct.analysis_parameters.filtering.min_length_mm = None


(***************************************************************************)
(* C26: if load_image_from_file fails because the file does not exist,     *)
(* has an unsupported extension or cannot be decoded, it returns           *)
(* (False, message), no pipeline stage runs, and the controller's current  *)
(* image, DPI, path and all stored stage results are exactly what they     *)
(* were before the call; a successful load instead discards every stored   *)
(* result of the previous image before storing the new ORIGINAL and        *)
(* GRAYSCALE results.                                                      *)
(***************************************************************************)
C26_FailedLoadChangesNothing ==
    [][ct'.handler = "load_image_from_file" =>
          IF ct'.returned[2] \in {"missing.png", "core.tif", "corrupt.png"}
          THEN /\ ct'.returned[1] = FALSE
               /\ ct'.calls = <<>>
               /\ ct'.trace = <<>>
               /\ ct'.current_image = ct.current_image
               /\ ct'.current_dpi = ct.current_dpi
               /\ ct'.current_image_path = ct.current_image_path
               /\ ct'.analysis_results = ct.analysis_results
          ELSE /\ ct'.returned[1] = TRUE
               /\ ct'.returned[2] = ct'.current_image_path
               /\ SubSeq(ct'.trace, 1, 2) = <<<<"save", "ORIGINAL">>, <<"save", "GRAYSCALE">>>>
               /\ \A stage \in DOMAIN ct'.analysis_results :
                     \E i \in DOMAIN ct'.trace : ct'.trace[i] = <<"save", stage>>
               /\ ct'.analysis_results["ORIGINAL"].path = ct'.current_image_path
               /\ ct'.analysis_results["ORIGINAL"].image = ct'.current_image
    ]_vars

\* a load of a file that cannot be decoded has failed while the results of a
\* complete analysis of the previous image are stored
C26_Witness ==
    /\ ct.handler = "load_image_from_file"
    /\ ct.returned = <<FALSE, "corrupt.png", "ValueError">>
    /\ "DETECTION" \in DOMAIN ct.analysis_results
    /\ ct.current_image_path = "scan.png"


(***************************************************************************)
(* C27: after update_parameter('threshold.<key>', v), where <key> is a     *)
(* parameter of the currently selected threshold method given under either *)
(* of its supported names (legacy flat key such as window_size, k, r,      *)
(* block_size, or method-prefixed key such as niblack_window_size,         *)
(* adaptive_block_size), the next threshold computation uses v for that    *)
(* parameter.  With an image loaded that computation is the apply_threshold *)
(* call the update itself makes.                                           *)
(***************************************************************************)
C27_UpdatedThresholdKeyIsUsed ==
    LET \* the argument of the thresholding function that key sets under method
        Argument(method, key) ==
            IF method = "global" /\ key \in {"global_value", "value"} THEN "value"
            ELSE IF method = "adaptive_gaussian" /\ key \in {"adaptive_block_size", "block_size"}
            THEN "block_size"
            ELSE IF method = "adaptive_gaussian" /\ key \in {"adaptive_c_value", "c"} THEN "c"
            ELSE IF method \in {"niblack", "sauvola"}
                    /\ key \in {method \o "_window_size", "window_size"} THEN "window_size"
            ELSE IF method \in {"niblack", "sauvola"} /\ key \in {method \o "_k", "k"} THEN "k"
            ELSE IF method = "sauvola" /\ key \in {"sauvola_r", "r"} THEN "r"
            ELSE NoneStr
        Used(argument, v) ==
            \E i \in DOMAIN ct.calls :
                /\ ct.calls[i].method = "apply_threshold"
                /\ ct.calls[i].kwargs.params[argument] = v
        Updated(keys, v) ==
            (/\ Len(keys) = 2
             /\ keys[1] = "threshold"
             /\ Argument(ct.analysis_parameters.threshold.method, keys[2]) # NoneStr)
            => Used(Argument(ct.analysis_parameters.threshold.method, keys[2]), v)
    IN  (/\ ct.handler = "update_parameter"
         /\ ct.raised = "none"
         /\ ct.current_image # None)
        => Updated(ct.args[1], ct.args[2])


(***************************************************************************)
(* C28: in FractureAnalyzer.run_analysis and run_staged_analysis, when the *)
(* morphology parameters give a positive open_kernel_size (respectively    *)
(* close_kernel_size) as top-level keys of the morphology section, the     *)
(* opening (respectively closing) stage is actually applied to the binary  *)
(* mask, opening before closing, and the call does not fail.               *)
(***************************************************************************)
C28_TopLevelKernelSizeAppliesStage ==
    LET m == Section("morphology")
        Positive(ksize_key) ==
            /\ Get(m, ksize_key, None) # None
            /\ RLt(Zero, m[ksize_key])
        Applied(image, op) ==
            {i \in DOMAIN image.ops :
                image.ops[i][1] = "morphologyEx" /\ image.ops[i][2] = op}
        Staged(image) ==
            /\ Positive("open_kernel_size") => Applied(image, "MORPH_OPEN") # {}
            /\ Positive("close_kernel_size") => Applied(image, "MORPH_CLOSE") # {}
            /\ \A i \in Applied(image, "MORPH_OPEN"), j \in Applied(image, "MORPH_CLOSE") : i < j
    IN  (/\ an.analyzer = "fracture"
         /\ \E i \in DOMAIN an.trace : an.trace[i] = "morphology"
         /\ Positive("open_kernel_size") \/ Positive("close_kernel_size")) =>
            /\ "binary_processed" \in DOMAIN an.locals
            /\ Staged(an.locals.binary_processed)


(***************************************************************************)
(* Settings dialogs (src/app/ui): the controls of one dialog, its          *)
(* single-shot preview timer and what its handlers emit.  Time is counted  *)
(* in milliseconds.  Numbers held by controls are rationals, a combo box   *)
(* holds its current index, a check box a boolean.                         *)
(***************************************************************************)
PreviewDelay == 500

\* the clock of the model runs up to MaxTicks steps of half a PreviewDelay
MaxTicks == 5

\* the longest history of parameter changes and preview requests followed
MaxLog == 3

\* the child widgets that carry an objectName, with the value they hold after
\* __init__ (the default of the class clamped into setRange); buddy is the
\* widget a slider/spin box pair is wired to, odd marks the pairs wired
\* through ensure_odd_bs / ensure_odd_ws.  The Niblack and the Sauvola page
\* create widgets of the same names; one of each name is kept.
DialogWidgets(dialog) ==
    LET W(n, c, v, b, o) == n :> [class |-> c, value |-> v, buddy |-> b, odd |-> o]
    IN  CASE dialog = "threshold" ->
              (W("threshold.method", "QComboBox", 0, NoneStr, FALSE) @@
               W("threshold.global_value", "QSlider", RInt(0), "threshold.global_value_spinbox", FALSE) @@
               W("threshold.global_value_spinbox", "QSpinBox", RInt(0), "threshold.global_value", FALSE) @@
               W("threshold.adaptive_block_size", "QSlider", RInt(3), "threshold.adaptive_block_size_spinbox", TRUE) @@
               W("threshold.adaptive_block_size_spinbox", "QSpinBox", RInt(3), "threshold.adaptive_block_size", TRUE) @@
               W("threshold.adaptive_c_value", "QSlider", RInt(0), "threshold.adaptive_c_value_spinbox", FALSE) @@
               W("threshold.adaptive_c_value_spinbox", "QSpinBox", RInt(0), "threshold.adaptive_c_value", FALSE) @@
               W("threshold.window_size", "QSlider", RInt(3), "threshold.window_size_spinbox", TRUE) @@
               W("threshold.window_size_spinbox", "QSpinBox", RInt(3), "threshold.window_size", TRUE) @@
               W("threshold.k", "QDoubleSpinBox", Zero, NoneStr, FALSE) @@
               W("threshold.r", "QSlider", RInt(0), "threshold.r_spinbox", FALSE) @@
               W("threshold.r_spinbox", "QSpinBox", RInt(0), "threshold.r", FALSE))
          [] dialog = "pore_morphology" ->
              (W("morphology.opening_ksize", "QSpinBox", RInt(1), NoneStr, FALSE) @@
               W("morphology.opening_iterations", "QSpinBox", RInt(1), NoneStr, FALSE) @@
               W("morphology.sure_bg_ksize", "QSpinBox", RInt(1), NoneStr, FALSE) @@
               W("morphology.distance_transform_threshold_ratio", "QDoubleSpinBox", Zero, NoneStr, FALSE))
          [] dialog = "filtering" ->
              (W("filtering.min_length_mm", "QDoubleSpinBox", Zero, NoneStr, FALSE) @@
               W("filtering.min_aspect_ratio", "QDoubleSpinBox", RInt(1), NoneStr, FALSE) @@
               W("merging.enabled", "QCheckBox", FALSE, NoneStr, FALSE) @@
               W("merging.merge_distance_mm", "QDoubleSpinBox", Zero, NoneStr, FALSE) @@
               W("merging.max_angle_diff", "QDoubleSpinBox", Zero, NoneStr, FALSE))
          [] dialog = "pore_filtering" ->
              (W("filtering.min_solidity", "QSlider", RInt(0), NoneStr, FALSE) @@
               W("filtering.min_area_pixels", "QSlider", RInt(0), NoneStr, FALSE))

\* self.findChildren(classes), as the set of their names
findChildren(dialog, classes) ==
    {n \in DOMAIN DialogWidgets(dialog) : DialogWidgets(dialog)[n].class \in classes}

\* the controller's parameter tree, each group with its ui_hints
Controller_get_current_parameters(x) == x.parameters

\* current_params.get(param_group, {}).get('ui_hints', {}).get('realtime', False)
\* with param_group = param_path.split('.')[0]
RealtimeHint(x, param_path) ==
    LET param_group ==
            IF param_path \in {"merging.enabled", "merging.merge_distance_mm",
                               "merging.max_angle_diff"}
            THEN "merging"
            ELSE IF param_path \in {"filtering.min_length_mm", "filtering.min_aspect_ratio",
                                    "filtering.min_solidity", "filtering.min_area_pixels"}
            THEN "filtering"
            ELSE IF param_path \in DOMAIN DialogWidgets("pore_morphology")
            THEN "morphology"
            ELSE "threshold"
    IN  Get(Get(Get(Controller_get_current_parameters(x), param_group, EmptyDict),
                "ui_hints", EmptyDict), "realtime", FALSE)

\* signal.emit(...): trace keeps what the running handler did, log the times
\* of the parameter changes and of the preview requests since construction
DialogEmitted(x, signal) ==
    [x EXCEPT !.trace = Append(@, <<"emit">> \o signal),
              !.log = IF signal[1] = "parameter_changed" THEN Append(@, <<"change", x.now>>)
                      ELSE IF signal[1] = "realtime_preview_requested" THEN Append(@, <<"preview", x.now>>)
                      ELSE @]

\* the mutation of the restart that leaves a running timer alone
QTimer_start_unless_active(x, msec) ==
    IF x.deadline >= 0 THEN x
    ELSE [x EXCEPT !.deadline = x.now + msec,
                   !.trace = Append(@, <<"preview_timer.start", msec>>)]

\* self.preview_timer.stop(); self.preview_timer.start(msec); deadline is -1
\* while the timer is not active
QTimer_start(x, msec) ==
    [x EXCEPT !.deadline = x.now + msec,
              !.trace = Append(@, <<"preview_timer.start", msec>>)]


\* threshold_settings_dialog.py lines 204-245; value of a combo box is looked
\* up in threshold_method_map
ThresholdSettingsDialog_on_parameter_changed(x, sender, value0) ==
    LET w == DialogWidgets("threshold")[sender]
        threshold_method_map == <<"adaptive_gaussian", "otsu", "global", "niblack", "sauvola">>
        even == sender = "threshold.window_size" /\ value0[1] % 2 = 0
        value == IF w.class = "QComboBox" THEN threshold_method_map[x.value[sender] + 1]
                 ELSE IF even THEN RInt(value0[1] + 1)
                 ELSE value0
        Changed(y) ==
            LET z == DialogEmitted(y, <<"parameter_changed", sender, value>>)
            IN  IF RealtimeHint(z, sender) THEN QTimer_start(z, PreviewDelay) ELSE z
    IN  IF w.class = "QSpinBox" /\ w.buddy # NoneStr THEN x
        ELSE IF even THEN Changed([x EXCEPT !.value[sender] = value])
        ELSE Changed(x)

\* dialogs/pore_morphology_dialog.py lines 79-93
PoreMorphologyDialog_on_parameter_changed(x, sender, value) ==
    LET z == DialogEmitted(x, <<"parameter_changed", sender, value>>)
    IN  IF RealtimeHint(z, sender) THEN QTimer_start(z, PreviewDelay) ELSE z

\* dialogs/pore_filtering_dialog.py lines 56-75: the slot of sliderReleased
\* reads the value from the sender and requests the preview at once
PoreFilteringSettingsDialog_on_parameter_changed(x, sender) ==
    LET value == IF sender = "filtering.min_solidity" THEN RDiv(x.value[sender], RInt(100))
                 ELSE x.value[sender]
        z == DialogEmitted(x, <<"parameter_changed", sender, value>>)
    IN  IF RealtimeHint(z, sender) THEN DialogEmitted(z, <<"realtime_preview_requested">>) ELSE z

\* filtering_settings_dialog.py lines 84-92
FilteringSettingsDialog_on_parameter_changed(x, sender, value) ==
    DialogEmitted(x, <<"parameter_changed", sender, value>>)

\* the setValue / setCurrentIndex / setChecked calls of a handler, in order.
\* A call does nothing when the widget already holds the value, and signals
\* nothing while the widget is in blocked (blockSignals(True)).  Otherwise
\* the slots connected to valueChanged / currentIndexChanged / toggled run in
\* the order they were connected.  In the threshold dialog a slider first
\* sets its spin box, a spin box first sets its slider, whose own valueChanged
\* then runs the handler (lines 90-91, 116-117, 129-130, 156-157, 175-176,
\* 190-202); the sliders of the pore filtering dialog only refresh their
\* labels (pore_filtering_dialog.py lines 39, 47).
RECURSIVE QWidget_setValues(_, _, _)
QWidget_setValues(x, blocked, calls) ==
    LET sender == Head(calls)[1]
        value == Head(calls)[2]
        w == DialogWidgets(x.dialog)[sender]
        ensure_odd == IF w.odd /\ value[1] % 2 = 0 THEN RInt(value[1] + 1) ELSE value
        Spun(y) == IF y.value[w.buddy] = ensure_odd THEN y
                   ELSE ThresholdSettingsDialog_on_parameter_changed(
                            [y EXCEPT !.value[w.buddy] = ensure_odd], w.buddy, ensure_odd)
        valueChanged(y) ==
            CASE y.dialog = "threshold" ->
                  IF w.buddy = NoneStr
                  THEN ThresholdSettingsDialog_on_parameter_changed(y, sender, value)
                  ELSE IF w.class = "QSlider"
                  THEN ThresholdSettingsDialog_on_parameter_changed(
                           [y EXCEPT !.value[w.buddy] = ensure_odd], sender, value)
                  ELSE Spun([y EXCEPT !.value[sender] = ensure_odd])
              [] y.dialog = "pore_morphology" ->
                  PoreMorphologyDialog_on_parameter_changed(y, sender, value)
              [] y.dialog = "filtering" ->
                  FilteringSettingsDialog_on_parameter_changed(y, sender, value)
              [] y.dialog = "pore_filtering" -> y
        setValue ==
            IF x.value[sender] = value THEN x
            ELSE IF sender \in blocked THEN [x EXCEPT !.value[sender] = value]
            ELSE valueChanged([x EXCEPT !.value[sender] = value])
    IN  IF calls = <<>> THEN x
        ELSE QWidget_setValues(setValue, blocked, Tail(calls))

\* threshold_settings_dialog.py lines 251-289
ThresholdSettingsDialog_update_controls(x, params) ==
    LET p == Get(params, "threshold", EmptyDict)
        method == Get(p, "method", "adaptive_gaussian")
        rev_map == CASE method = "adaptive_gaussian" -> 0 [] method = "otsu" -> 1
                     [] method = "global" -> 2 [] method = "niblack" -> 3
                     [] method = "sauvola" -> 4 [] OTHER -> 0
    IN  IF DOMAIN p = {} THEN x
        ELSE QWidget_setValues(x,
                 findChildren("threshold", {"QComboBox", "QSlider", "QDoubleSpinBox", "QSpinBox"}),
                 <<<<"threshold.method", rev_map>>,
                   <<"threshold.global_value", Get(p, "value", RInt(127))>>,
                   <<"threshold.adaptive_block_size", Get(p, "block_size", RInt(11))>>,
                   <<"threshold.adaptive_c_value", Get(p, "c", RInt(2))>>,
                   <<"threshold.window_size", Get(p, "window_size", RInt(25))>>,
                   <<"threshold.k", Get(p, "k", R(-2, 10))>>,
                   <<"threshold.r", Get(p, "r", RInt(128))>>,
                   <<"threshold.global_value_spinbox", Get(p, "value", RInt(127))>>,
                   <<"threshold.adaptive_block_size_spinbox", Get(p, "block_size", RInt(11))>>,
                   <<"threshold.adaptive_c_value_spinbox", Get(p, "c", RInt(2))>>,
                   <<"threshold.window_size_spinbox", Get(p, "window_size", RInt(25))>>,
                   <<"threshold.r_spinbox", Get(p, "r", RInt(128))>>>>)

\* dialogs/pore_morphology_dialog.py lines 100-114: the signals of the
\* children found as QSpinBox are blocked
PoreMorphologyDialog_update_controls(x, params) ==
    LET p == Get(params, "morphology", EmptyDict)
    IN  IF DOMAIN p = {} THEN x
        ELSE QWidget_setValues(x,
                 findChildren("pore_morphology", {"QSpinBox"}),
                 <<<<"morphology.opening_ksize", Get(p, "opening_ksize", RInt(3))>>,
                   <<"morphology.opening_iterations", Get(p, "opening_iterations", RInt(2))>>,
                   <<"morphology.sure_bg_ksize", Get(p, "sure_bg_ksize", RInt(3))>>,
                   <<"morphology.distance_transform_threshold_ratio",
                     Get(p, "distance_transform_threshold_ratio", R(6, 10))>>>>)

\* filtering_settings_dialog.py lines 94-110
FilteringSettingsDialog_update_controls(x, params) ==
    LET p_filter == Get(params, "filtering", EmptyDict)
        p_merge == Get(params, "merging", EmptyDict)
    IN  IF DOMAIN p_filter = {} \/ DOMAIN p_merge = {} THEN x
        ELSE QWidget_setValues(x,
                 findChildren("filtering", {"QDoubleSpinBox", "QCheckBox"}),
                 <<<<"filtering.min_length_mm", Get(p_filter, "min_length_mm", RInt(5))>>,
                   <<"filtering.min_aspect_ratio", Get(p_filter, "min_aspect_ratio", RInt(3))>>,
                   <<"merging.enabled", Get(p_merge, "enabled", FALSE)>>,
                   <<"merging.merge_distance_mm", Get(p_merge, "merge_distance_mm", RInt(2))>>,
                   <<"merging.max_angle_diff", Get(p_merge, "max_angle_diff", RInt(15))>>>>)

\* dialogs/pore_filtering_dialog.py lines 77-93; int(...) truncates the
\* product min_solidity * 100
PoreFilteringSettingsDialog_update_controls(x, params) ==
    LET p == Get(params, "filtering", EmptyDict)
        scaled == RMul(Get(p, "min_solidity", R(85, 100)), RInt(100))
    IN  IF DOMAIN p = {} THEN x
        ELSE QWidget_setValues(x,
                 {"filtering.min_solidity", "filtering.min_area_pixels"},
                 <<<<"filtering.min_solidity", RInt(scaled[1] \div scaled[2])>>,
                   <<"filtering.min_area_pixels", Get(p, "min_area_pixels", RInt(20))>>>>)


\* what the user may set a control to
ChangeInputs(dialog) ==
    LET C(n, v) == [objectName |-> n, value |-> v]
    IN  CASE dialog = "threshold" ->
              <<C("threshold.method", 1),
               C("threshold.adaptive_block_size_spinbox", RInt(10)),
               C("threshold.window_size", RInt(30)), C("threshold.k", R(-1, 2))>>
          [] dialog = "pore_morphology" ->
              <<C("morphology.opening_ksize", RInt(3)), C("morphology.opening_ksize", RInt(5)),
               C("morphology.distance_transform_threshold_ratio", R(1, 2)),
               C("morphology.distance_transform_threshold_ratio", R(6, 10))>>
          [] dialog = "filtering" ->
              <<C("filtering.min_length_mm", RInt(10)), C("merging.enabled", TRUE),
               C("merging.max_angle_diff", RInt(30))>>
          [] dialog = "pore_filtering" ->
              <<C("filtering.min_solidity", RInt(85)), C("filtering.min_solidity", RInt(50)),
               C("filtering.min_area_pixels", RInt(20))>>

\* the trees that parameters_updated hands to update_controls: none, the
\* controller's defaults, a tree of the pore analysis, and a loaded file
ControlParams ==
    <<EmptyDict,
     Controller_default_parameters,
     [morphology |-> [opening_ksize |-> RInt(3), opening_iterations |-> RInt(2),
                      sure_bg_ksize |-> RInt(3),
                      distance_transform_threshold_ratio |-> R(6, 10)],
      filtering |-> [min_solidity |-> R(85, 100), min_area_pixels |-> RInt(20)]],
     [threshold |-> [method |-> "sauvola", window_size |-> RInt(31), k |-> R(2, 10)],
      morphology |-> [opening_ksize |-> RInt(5)],
      filtering |-> [min_length_mm |-> RInt(10), min_solidity |-> R(1, 2)],
      merging |-> [enabled |-> TRUE, merge_distance_mm |-> RInt(2),
                   max_angle_diff |-> RInt(30)]]>>

\* the dialog after __init__: the preview timer is created but not started;
\* parameters is the tree the controller holds, hinted or not
DgInit ==
    /\ uc = None
    /\ th = None
    /\ an = None
    /\ ct = None
    /\ mg = None
    /\ dg \in {[dialog |-> d,
                parameters |-> [g \in {"threshold", "morphology", "filtering", "merging"} |-> s],
                value |-> [n \in DOMAIN DialogWidgets(d) |-> DialogWidgets(d)[n].value],
                now |-> 0,
                deadline |-> -1,
                log |-> <<>>,
                handler |-> "__init__",
                trace |-> <<>>] :
                    d \in {"threshold", "pore_morphology", "filtering", "pore_filtering"},
                    s \in {[ui_hints |-> [realtime |-> TRUE]],
                           [ui_hints |-> [realtime |-> FALSE]],
                           [ui_hints |-> EmptyDict]}}

\* the user sets a control (and, in the pore filtering dialog, releases the
\* slider, lines 53-54)
UserChanges ==
    /\ Len(dg.log) < MaxLog
    /\ \E i \in DOMAIN ChangeInputs(dg.dialog) :
        LET input == ChangeInputs(dg.dialog)[i]
            x == [dg EXCEPT !.handler = "user", !.trace = <<>>]
            y == QWidget_setValues(x, {}, <<<<input.objectName, input.value>>>>)
        IN  IF dg.dialog = "pore_filtering"
            THEN dg' = PoreFilteringSettingsDialog_on_parameter_changed(y, input.objectName)
            ELSE /\ dg.value[input.objectName] # input.value
                 /\ dg' = y
    /\ UNCHANGED <<uc, th, an, ct, mg>>

\* the event loop runs a due timer before anything later
TimePasses ==
    /\ dg.now < MaxTicks * (PreviewDelay \div 2)
    /\ ~(dg.deadline >= 0 /\ dg.deadline <= dg.now)
    /\ dg' = [dg EXCEPT !.now = @ + PreviewDelay \div 2]
    /\ UNCHANGED <<uc, th, an, ct, mg>>

\* timeout of the single-shot preview_timer: _request_binary_preview
\* (threshold_settings_dialog.py lines 247-249), _request_morph_preview
\* (dialogs/pore_morphology_dialog.py lines 95-98)
TimerFires ==
    /\ dg.deadline >= 0
    /\ dg.deadline <= dg.now
    /\ dg' = DialogEmitted([dg EXCEPT !.handler = "timeout", !.trace = <<>>, !.deadline = -1],
                           <<"realtime_preview_requested",
                             IF dg.dialog = "threshold" THEN "binary" ELSE "morph">>)
    /\ UNCHANGED <<uc, th, an, ct, mg>>

\* parameters_updated reaches the dialog
UpdateControls ==
    /\ Len(dg.log) < MaxLog
    /\ \E i \in DOMAIN ControlParams :
        LET params == ControlParams[i]
            x == [dg EXCEPT !.handler = "update_controls", !.trace = <<>>]
        IN  dg' = CASE dg.dialog = "threshold" -> ThresholdSettingsDialog_update_controls(x, params)
                    [] dg.dialog = "pore_morphology" -> PoreMorphologyDialog_update_controls(x, params)
                    [] dg.dialog = "filtering" -> FilteringSettingsDialog_update_controls(x, params)
                    [] dg.dialog = "pore_filtering" -> PoreFilteringSettingsDialog_update_controls(x, params)
    /\ UNCHANGED <<uc, th, an, ct, mg>>

DgNext ==
    \/ UserChanges
    \/ TimePasses
    \/ TimerFires
    \/ UpdateControls

SpecDialog == DgInit /\ [][DgNext]_vars


C30_UpdateControlsIsSilent ==
    (dg # None /\ dg.handler = "update_controls")
    => \A i \in DOMAIN dg.trace :
           /\ dg.trace[i][1] # "preview_timer.start"
           /\ dg.trace[i][1] = "emit" => dg.trace[i][2] # "parameter_changed"

=============================================================================
